---------------------------- MODULE Spec2Model ----------------------------
(***************************************************************************)
(* PaperPlain: the paper-acquisition and summarization pipeline.           *)
(*                                                                         *)
(* Strings are modelled as sequences of tokens.  A token stands for a run  *)
(* of characters that every regular expression of the code treats as one   *)
(* unit, so that the expressions can be evaluated as the code evaluates    *)
(* them (leftmost match, greedy quantifiers, positions of the original     *)
(* string for a global replace).                                           *)
(***************************************************************************)
EXTENDS Integers, Sequences, FiniteSets, TLC

VARIABLES
    sStyle,     \* simplifyPaper: the style argument
    sPc,        \* simplifyPaper: position in the function
    sText,      \* simplifyPaper: the local variable text
    sPrimary,   \* simplifyPaper: raw content of the first completion
    sRepair,    \* simplifyPaper: raw content of the key-terms completion
    sCalls,     \* simplifyPaper: the LLM requests issued so far, in order
    sResult,    \* simplifyPaper: the returned string
    sError,     \* simplifyPaper: the thrown error
    qPc,        \* buildQaSources: before or after the call
    qQuestion,  \* buildQaSources: question
    qAbstract,  \* buildQaSources: paper.abstract
    qSummary,   \* buildQaSources: paper.summary
    qSources,   \* buildQaSources: the returned array
    aPc,        \* extractArxivId: before or after the call
    aKind,      \* extractArxivId: how the argument was formed
    aId,        \* extractArxivId: the ArXiv id the argument was formed from
    aInput,     \* extractArxivId: the argument url
    aResult,    \* extractArxivId: the returned id or the thrown error
    dKind,      \* DOI: how the input was formed
    dDoi,       \* DOI: the DOI the input was formed from
    dInput,     \* DOI: the string the client supplies
    dExtracted, \* extractDOI(input), once applied
    dLookup,    \* fetchPaperByDOI(input): the DOI requested from Crossref
    fSource,    \* fetchers: which Source Fetcher ran
    fPmid,      \* fetchers: the PMID handed to fetchPaperByPMID
    fUpstream,  \* fetchers: what the metadata API answered
    fPaper,     \* fetchers: the Paper record returned, if any
    fError,     \* fetchers: the error thrown, if any
    fList,      \* fetchers: the array a list call returned, if any
    fCalls,     \* fetchers: outbound requests sent
    hRoute,     \* endpoints: the simplify route that was requested
    hPc,        \* endpoints: where the handler stands
    hText,      \* endpoints: the text pdf-parse extracted from the upload
    hStorage,   \* endpoints: where uploads go (Supabase Storage or local disk)
    hExtraction,\* endpoints: how the metadata-extraction call ended
    hMeta,      \* endpoints: title, authors and abstract of the PDF's Paper
    hLlm,       \* endpoints: the LLM calls issued, in order
    hUploads,   \* endpoints: uploads to object storage attempted
    hResponse,  \* endpoints: the HTTP response sent, with what caused it
    cachedHandler,   \* api/index.js: the wrapped Express app, once built
    cachedInitError, \* api/index.js: the error of a failed initialization
    vRequests,  \* api/index.js: the invocations of handler(req, res)
    savedPapers,     \* script.js: the saved papers shown in the sidebar (ids)
    currentPaperId,  \* script.js: the id of the loaded saved paper, 0 for null
    uServer,    \* script.js: the papers the server holds for the user
    uDelete,    \* script.js: the deleteSavedPaper call in flight or last finished
    uRendered,  \* script.js: what renderSavedList last drew
    reading_lists,   \* the rows of table reading_lists, by id
    lPut,       \* the PUT /api/lists/:id request being answered, if any
    tCalls,     \* withTimeout: the calls made, each with its operation, timer and race
    tJobs,      \* withTimeout: the promise reaction jobs queued (microtasks)
    cachedGroq, \* server: the cached Groq client, 0 while undefined
    rRequests,  \* server: the concurrent summarize requests
    rLlm,       \* server: the number of LLM calls issued for each request
    papers,           \* table papers: the owner of each row, by id
    pLists,           \* table reading_lists: the owner of each row, by id
    reading_list_items,\* table reading_list_items: pairs of list id and paper id
    pReply,           \* the authenticated request being answered, if any
    cachedAuth, \* auth.js: the cached provider, "undefined" before initialization
    initPromise,\* auth.js: the initialization in flight (index into bPromises), 0 for none
    serverCachedAuth,\* server: the provider cached by the getAuth wrapper
    bEnv,       \* whether DATABASE_URL is set
    bPromises,  \* the promises made by initializations, each pending or settled
    bCalls,     \* the getAuth calls of the server
    bConstructed,\* how many times betterAuth(...) was called
    wPapers,    \* papers write requests: the rows of table papers
    wRequests,  \* papers write requests: each with its query and its answer
    currentPaper,     \* script.js: the paper shown (its key), 0 for null
    kCurrentPaperId,  \* script.js: currentPaperId as the Q&A and load code sees it, 0 for null
    currentTags,      \* script.js: the tags shown
    currentQaHistory, \* script.js: the Q&A messages shown
    kServer,          \* script.js: the rows of the user in table papers
    kDraft,           \* script.js: the draft in localStorage
    kLoads,           \* script.js: the loadSavedPaper calls awaiting their fetch
    kQa,              \* script.js: the sendQa calls
    kSave,            \* script.js: the savePaper call awaiting its response
    kDelete           \* script.js: the deleteSavedPaper call awaiting its response

sVars == <<sStyle, sPc, sText, sPrimary, sRepair, sCalls, sResult, sError>>

qVars == <<qPc, qQuestion, qAbstract, qSummary, qSources>>

aVars == <<aPc, aKind, aId, aInput, aResult>>

dVars == <<dKind, dDoi, dInput, dExtracted, dLookup>>

fVars == <<fSource, fPmid, fUpstream, fPaper, fError, fList, fCalls>>

hVars == <<hRoute, hPc, hText, hStorage, hExtraction, hMeta, hLlm, hUploads, hResponse>>

vVars == <<cachedHandler, cachedInitError, vRequests>>

uVars == <<savedPapers, currentPaperId, uServer, uDelete, uRendered>>

lVars == <<reading_lists, lPut>>

tVars == <<tCalls, tJobs>>

rVars == <<cachedGroq, rRequests, rLlm>>

pVars == <<papers, pLists, reading_list_items, pReply>>

bVars == <<cachedAuth, initPromise, serverCachedAuth, bEnv, bPromises, bCalls, bConstructed>>

wVars == <<wPapers, wRequests>>

kVars == <<currentPaper, kCurrentPaperId, currentTags, currentQaHistory, kServer, kDraft, kLoads, kQa, kSave, kDelete>>

vars == <<sVars, qVars, aVars, dVars, fVars, hVars, vVars, uVars, lVars, tVars, rVars, pVars, bVars, wVars, kVars>>

\* What each component leaves alone: the variables of the others.
SFrame == UNCHANGED <<qVars, aVars, dVars, fVars, hVars, vVars, uVars, lVars, tVars, rVars, pVars, bVars, wVars, kVars>>
QFrame == UNCHANGED <<sVars, aVars, dVars, fVars, hVars, vVars, uVars, lVars, tVars, rVars, pVars, bVars, wVars, kVars>>
AFrame == UNCHANGED <<sVars, qVars, dVars, fVars, hVars, vVars, uVars, lVars, tVars, rVars, pVars, bVars, wVars, kVars>>
DFrame == UNCHANGED <<sVars, qVars, aVars, fVars, hVars, vVars, uVars, lVars, tVars, rVars, pVars, bVars, wVars, kVars>>
FFrame == UNCHANGED <<sVars, qVars, aVars, dVars, hVars, vVars, uVars, lVars, tVars, rVars, pVars, bVars, wVars, kVars>>
HFrame == UNCHANGED <<sVars, qVars, aVars, dVars, fVars, vVars, uVars, lVars, tVars, rVars, pVars, bVars, wVars, kVars>>
VFrame == UNCHANGED <<sVars, qVars, aVars, dVars, fVars, hVars, uVars, lVars, tVars, rVars, pVars, bVars, wVars, kVars>>
UFrame == UNCHANGED <<sVars, qVars, aVars, dVars, fVars, hVars, vVars, lVars, tVars, rVars, pVars, bVars, wVars, kVars>>
LFrame == UNCHANGED <<sVars, qVars, aVars, dVars, fVars, hVars, vVars, uVars, tVars, rVars, pVars, bVars, wVars, kVars>>
TFrame == UNCHANGED <<sVars, qVars, aVars, dVars, fVars, hVars, vVars, uVars, lVars, rVars, pVars, bVars, wVars, kVars>>
RFrame == UNCHANGED <<sVars, qVars, aVars, dVars, fVars, hVars, vVars, uVars, lVars, tVars, pVars, bVars, wVars, kVars>>
PFrame == UNCHANGED <<sVars, qVars, aVars, dVars, fVars, hVars, vVars, uVars, lVars, tVars, rVars, bVars, wVars, kVars>>
BFrame == UNCHANGED <<sVars, qVars, aVars, dVars, fVars, hVars, vVars, uVars, lVars, tVars, rVars, pVars, wVars, kVars>>
WFrame == UNCHANGED <<sVars, qVars, aVars, dVars, fVars, hVars, vVars, uVars, lVars, tVars, rVars, pVars, bVars, kVars>>
KFrame == UNCHANGED <<sVars, qVars, aVars, dVars, fVars, hVars, vVars, uVars, lVars, tVars, rVars, pVars, bVars, wVars>>

None == "none"

\* The value of a string variable that was never assigned.
Undefined == <<"undefined">>

(***************************************************************************)
(* Bounds of the model.                                                    *)
(***************************************************************************)
MaxPrimaryLines == 2
MaxRepairLines == 2
MaxQuestionChunks == 2
MaxSummaryParts == 3
NumDigits == 2
MaxRawLen == 3
MaxSuffixLen == 2
MaxBodyLen == 4
MaxItems == 2
MaxRequests == 2
MaxPapers == 3
MaxLists == 2
MaxCalls == 2
MaxMs == 2
MaxRows == 2
MaxAuthCalls == 3
MaxWrites == 2
MaxTargets == 1
MaxPending == 2
MaxQa == 1

\* All sequences over S of length at most n.
RECURSIVE SeqsUpTo(_, _)
SeqsUpTo(S, n) ==
    IF n = 0 THEN {<<>>}
    ELSE LET shorter == SeqsUpTo(S, n - 1)
         IN  shorter \cup {Append(s, x) : s \in {t \in shorter : Len(t) = n - 1}, x \in S}

(***************************************************************************)
(* LLM text.  "**" is the bold marker, "SP" a blank, "NL" a line break,    *)
(* "Key"/"key" two casings of the word Key, "Terms" the word Terms, ":"    *)
(* a colon and "w" any other word.                                         *)
(***************************************************************************)
TextTokens == {"**", "SP", "NL", "Key", "key", "Terms", ":", "w"}

IsWs(t) == t \in {"SP", "NL"}
IsKey(t) == t \in {"Key", "key"}
IsTerms(t) == t = "Terms"
IsWordTok(t) == t \in {"Key", "key", "Terms", "w"}

CanonicalHeading == <<"**", "Key", "SP", "Terms", ":", "**">>

\* \s* from position i: the first position at or after i holding no whitespace.
RECURSIVE SkipWs(_, _)
SkipWs(s, i) ==
    IF i <= Len(s) /\ IsWs(s[i]) THEN SkipWs(s, i + 1) ELSE i

\* String.prototype.trim
RECURSIVE TrimEnd(_)
TrimEnd(s) ==
    IF s # <<>> /\ IsWs(s[Len(s)]) THEN TrimEnd(SubSeq(s, 1, Len(s) - 1)) ELSE s

Trim(s) == TrimEnd(SubSeq(s, SkipWs(s, 1), Len(s)))

\* (\*\*\s*)?Key\s*Terms\s*:\s*(\*\*)? tried at position i, case-insensitively:
\* the position after the match, or 0 when it does not match there.
HeadingMatchEnd(s, i) ==
    LET k == IF i <= Len(s) /\ s[i] = "**" THEN SkipWs(s, i + 1) ELSE i
        b == SkipWs(s, k + 1)
        c == SkipWs(s, b + 1)
        d == SkipWs(s, c + 1)
    IN  IF /\ k <= Len(s) /\ IsKey(s[k])
           /\ b <= Len(s) /\ IsTerms(s[b])
           /\ c <= Len(s) /\ s[c] = ":"
        THEN IF d <= Len(s) /\ s[d] = "**" THEN d + 1 ELSE d
        ELSE 0

\* ^ under the m flag, at position i of the original string.
AtLineStart(s, i) == i = 1 \/ s[i - 1] = "NL"

\* text.replace(/^(\*\*\s*)?Key\s*Terms\s*:\s*(\*\*)?/gim, "**Key Terms:**")
RECURSIVE ReplaceFrom(_, _)
ReplaceFrom(s, i) ==
    IF i > Len(s) THEN <<>>
    ELSE IF AtLineStart(s, i) /\ HeadingMatchEnd(s, i) > 0
         THEN CanonicalHeading \o ReplaceFrom(s, HeadingMatchEnd(s, i))
         ELSE <<s[i]>> \o ReplaceFrom(s, i + 1)

ReplaceHeadings(s) == ReplaceFrom(s, 1)

\* /\bKey\s*Terms\b/i.test(text)
HasKeyTerms(s) ==
    \E i \in 1..Len(s) :
        /\ IsKey(s[i])
        /\ (i = 1 \/ ~IsWordTok(s[i - 1]))
        /\ LET b == SkipWs(s, i + 1)
           IN  /\ b <= Len(s)
               /\ IsTerms(s[b])
               /\ (b = Len(s) \/ ~IsWordTok(s[b + 1]))

\* Occurrences of the literal **Key Terms:** in s.
CountCanonical(s) ==
    Cardinality({i \in 1..Len(s) :
        /\ i + Len(CanonicalHeading) - 1 <= Len(s)
        /\ SubSeq(s, i, i + Len(CanonicalHeading) - 1) = CanonicalHeading})

(***************************************************************************)
(* Summarizer: simplifyPaper(paperData, style).                            *)
(***************************************************************************)
StyleNames == {"simple", "detailed", "technical", "tldr"}

\* Style arguments a request may carry: the four styles, a name that is no
\* property of any object, and a name every object inherits.
InheritedNames == {"constructor"}
StyleArgs == StyleNames \cup {"fancy"} \cup InheritedNames

SUMMARY_STYLES ==
    [n \in StyleNames |->
        [maxTokens |-> CASE n = "simple" -> 1000
                         [] n = "detailed" -> 1500
                         [] n = "technical" -> 1200
                         [] n = "tldr" -> 200,
         systemPrompt |-> n,
         promptTemplate |-> n]]

\* SUMMARY_STYLES[style] || SUMMARY_STYLES.simple: an own property, a member
\* inherited from Object.prototype (truthy, with no promptTemplate), or simple.
StyleConfig(style) ==
    IF style \in StyleNames THEN SUMMARY_STYLES[style]
    ELSE IF style \in InheritedNames
         THEN [maxTokens |-> 0, systemPrompt |-> None, promptTemplate |-> None]
         ELSE SUMMARY_STYLES["simple"]

UpstreamMessages == {"rate limit", "network"}

PrimaryRequest(cfg) ==
    [kind |-> "summary", system |-> cfg.systemPrompt, template |-> cfg.promptTemplate,
     temperature10 |-> 7, max_tokens |-> cfg.maxTokens]

RepairRequest ==
    [kind |-> "keyterms", system |-> "keyterms", template |-> "keyterms",
     temperature10 |-> 2, max_tokens |-> 250]

\* A completion not yet settled, resolved with content, or rejected with a message.
Pending == [status |-> "pending", content |-> <<>>, message |-> None]
Resolved(content) == [status |-> "ok", content |-> content, message |-> None]
Rejected(msg) == [status |-> "failed", content |-> <<>>, message |-> msg]

NoError == [name |-> None, prefix |-> "", upstream |-> None]

\* The condition of the follow-up call.
NeedsRepairAnyStyle(style, text) == ~HasKeyTerms(text)

NeedsRepairAlways(style, text) == style # "tldr"

NeedsRepair(style, text) == style # "tldr" /\ ~HasKeyTerms(text)

\* new Error(`Failed to generate summary: ${error.message}`)
SummaryErrorNoMessage(msg) ==
    [name |-> "Error", prefix |-> "Failed to generate summary: ", upstream |-> None]

SummaryError(msg) ==
    [name |-> "Error", prefix |-> "Failed to generate summary: ", upstream |-> msg]

\* What a rejected key-terms completion leads to: the catch block of the function.
RepairFailureSwallowed(text, msg) ==
    [pc |-> "done", result |-> text, error |-> NoError]

RepairFailure(text, msg) ==
    [pc |-> "failed", result |-> Undefined, error |-> SummaryError(msg)]

\* `${text}\n\n${keyTermsText}`.trim() when keyTermsText is not empty
AppendKeyTerms(text, keyTermsText) ==
    IF keyTermsText # <<>>
    THEN Trim(text \o <<"NL", "NL">> \o keyTermsText)
    ELSE text

SIdle ==
    /\ sStyle = None
    /\ sPc = "idle"
    /\ sText = Undefined
    /\ sPrimary = Pending
    /\ sRepair = Pending
    /\ sCalls = <<>>
    /\ sResult = Undefined
    /\ sError = NoError

\* Entry up to the first await of a completion.
SimplifyStart(style) ==
    /\ SFrame
    /\ sPc = "idle"
    /\ sStyle' = style
    /\ IF StyleConfig(style).promptTemplate = None
       THEN \* styleConfig.promptTemplate is not a function: thrown before the try
            /\ sPc' = "failed"
            /\ sError' = [name |-> "TypeError", prefix |-> "", upstream |-> None]
            /\ sCalls' = sCalls
       ELSE /\ sPc' = "awaitPrimary"
            /\ sError' = sError
            /\ sCalls' = Append(sCalls, PrimaryRequest(StyleConfig(style)))
    /\ UNCHANGED <<sText, sPrimary, sRepair, sResult>>

\* The first completion resolves with this content.
PrimaryReply(content) ==
    /\ SFrame
    /\ sPc = "awaitPrimary"
    /\ sPrimary' = Resolved(content)
    /\ LET text == ReplaceHeadings(Trim(content))
       IN  /\ sText' = text
           /\ IF NeedsRepair(sStyle, text)
              THEN /\ sPc' = "awaitRepair"
                   /\ sCalls' = Append(sCalls, RepairRequest)
                   /\ sResult' = sResult
              ELSE /\ sPc' = "done"
                   /\ sCalls' = sCalls
                   /\ sResult' = text
    /\ UNCHANGED <<sStyle, sRepair, sError>>

\* The first completion rejects.
PrimaryFail(msg) ==
    /\ SFrame
    /\ sPc = "awaitPrimary"
    /\ sPrimary' = Rejected(msg)
    /\ sPc' = "failed"
    /\ sError' = SummaryError(msg)
    /\ UNCHANGED <<sStyle, sText, sRepair, sCalls, sResult>>

\* The key-terms completion resolves with this content.
RepairReply(content) ==
    /\ SFrame
    /\ sPc = "awaitRepair"
    /\ sRepair' = Resolved(content)
    /\ LET keyTermsText == ReplaceHeadings(Trim(content))
       IN  /\ sText' = AppendKeyTerms(sText, keyTermsText)
           /\ sResult' = AppendKeyTerms(sText, keyTermsText)
    /\ sPc' = "done"
    /\ UNCHANGED <<sStyle, sPrimary, sCalls, sError>>

\* The key-terms completion rejects.
RepairFail(msg) ==
    /\ SFrame
    /\ sPc = "awaitRepair"
    /\ sRepair' = Rejected(msg)
    /\ LET out == RepairFailure(sText, msg)
       IN  /\ sPc' = out.pc
           /\ sResult' = out.result
           /\ sError' = out.error
    /\ UNCHANGED <<sStyle, sText, sPrimary, sCalls>>

\* Lines a completion is made of: body text, prose that mentions key terms,
\* a blank line, and heading variants (plain, bold with other casing and
\* spacing, indented).
SummaryLines ==
    { <<"w">>,
      <<"w", "SP", "key", "SP", "Terms">>,
      <<>>,
      <<"Key", "SP", "Terms", ":">>,
      <<"**", "key", "Terms", "SP", ":", "SP", "**">>,
      <<"SP", "Key", "SP", "Terms", ":">> }

RECURSIVE JoinLines(_)
JoinLines(ls) ==
    IF ls = <<>> THEN <<>>
    ELSE IF Len(ls) = 1 THEN ls[1]
    ELSE ls[1] \o <<"NL">> \o JoinLines(Tail(ls))

PrimaryContents == {JoinLines(ls) : ls \in SeqsUpTo(SummaryLines, MaxPrimaryLines)}
RepairContents == {JoinLines(ls) : ls \in SeqsUpTo(SummaryLines, MaxRepairLines)}

SNext ==
    \/ \E style \in StyleArgs : SimplifyStart(style)
    \/ \E content \in PrimaryContents : PrimaryReply(content)
    \/ \E msg \in UpstreamMessages : PrimaryFail(msg)
    \/ \E content \in RepairContents : RepairReply(content)
    \/ \E msg \in UpstreamMessages : RepairFail(msg)

QIdle ==
    /\ qPc = "idle"
    /\ qQuestion = <<>>
    /\ qAbstract = <<>>
    /\ qSummary = <<>>
    /\ qSources = <<>>

AIdle ==
    /\ aPc = "idle"
    /\ aKind = None
    /\ aId = <<>>
    /\ aInput = <<>>
    /\ aResult = [ok |-> FALSE, id |-> <<>>, error |-> None]

NotApplied == <<"not applied">>

DIdle ==
    /\ dKind = None
    /\ dDoi = <<>>
    /\ dInput = <<>>
    /\ dExtracted = NotApplied
    /\ dLookup = NotApplied

NoUpstream == [status |-> 0, empty |-> FALSE, absStatus |-> 0, body |-> <<>>]
NoPaper == [made |-> FALSE, abstract |-> <<>>]
NoFetchError == [message |-> None, status |-> 0]
NoList == [returned |-> FALSE, items |-> 0]

FIdle ==
    /\ fSource = None
    /\ fPmid = <<>>
    /\ fUpstream = NoUpstream
    /\ fPaper = NoPaper
    /\ fError = NoFetchError
    /\ fList = NoList
    /\ fCalls = 0

NoText ==
    [parsed |-> FALSE, len |-> 0, pad |-> 0, titleLine |-> FALSE, authorsLine |-> FALSE,
     abstractSection |-> FALSE]
NoMeta == [title |-> "", authors |-> "", abstract |-> ""]
NoResponse == [status |-> 0, cause |-> None, error |-> None]

HIdle ==
    /\ hRoute = None
    /\ hPc = "idle"
    /\ hText = NoText
    /\ hStorage = None
    /\ hExtraction = None
    /\ hMeta = NoMeta
    /\ hLlm = <<>>
    /\ hUploads = 0
    /\ hResponse = NoResponse

NoReply == [statusCode |-> 0, body |-> None]
NotInvoked == [url |-> <<>>, pc |-> "idle", imported |-> FALSE, app |-> NoReply, res |-> NoReply]

\* A fresh function instance: nothing cached, no invocation yet.
VIdle ==
    /\ cachedHandler = FALSE
    /\ cachedInitError = FALSE
    /\ vRequests = [r \in 1..MaxRequests |-> NotInvoked]

NoDelete == [pc |-> "idle", deletingId |-> 0, outcome |-> None]
NothingRendered == [drawn |-> FALSE, list |-> <<>>, active |-> 0]

\* The page as loaded: let savedPapers = []; let currentPaperId = null.
UIdle ==
    /\ savedPapers = <<>>
    /\ currentPaperId = 0
    /\ uServer = {}
    /\ uDelete = NoDelete
    /\ uRendered = NothingRendered

Null == "NULL"
NoRow == [user_id |-> Null, name |-> Null, description |-> Null, is_public |-> Null]
NoPut ==
    [pending |-> FALSE, user |-> Null, id |-> 0, name |-> Null, description |-> Null,
     is_public |-> Null, status |-> 0, before |-> <<>>]

\* CREATE TABLE IF NOT EXISTS reading_lists: no row yet.
LIdle ==
    /\ reading_lists = <<>>
    /\ lPut = NoPut

NotCalled ==
    [ms |-> 0, elapsed |-> 0, op |-> "none", timer |-> "none", first |-> None,
     race |-> "none", cleared |-> FALSE, returned |-> "none"]

TIdle ==
    /\ tCalls = [c \in 1..MaxCalls |-> NotCalled]
    /\ tJobs = <<>>

NoRequest ==
    [style |-> None, pc |-> "idle", client |-> 0, primary |-> Pending, repair |-> Pending,
     text |-> Undefined, result |-> Undefined, error |-> NoError, overlapped |-> FALSE]

RIdle ==
    /\ cachedGroq = 0
    /\ rRequests = [r \in 1..MaxRequests |-> NoRequest]
    /\ rLlm = [r \in 1..MaxRequests |-> 0]

NoAnswer ==
    [pending |-> FALSE, user |-> Null, status |-> 0, rows |-> {},
     before |-> [papers |-> <<>>, items |-> {}]]

PIdle ==
    /\ papers = <<>>
    /\ pLists = <<>>
    /\ reading_list_items = {}
    /\ pReply = NoAnswer

NoAuthCall == [pc |-> "idle", promise |-> 0, value |-> "undefined"]

BIdle ==
    /\ cachedAuth = "undefined"
    /\ initPromise = 0
    /\ serverCachedAuth = "undefined"
    /\ bEnv = TRUE
    /\ bPromises = <<>>
    /\ bCalls = [c \in 1..MaxAuthCalls |-> NoAuthCall]
    /\ bConstructed = 0

NoWrite ==
    [kind |-> None, id |-> 0, pc |-> "idle", query |-> "none", status |-> 0,
     changed |-> FALSE]

WIdle ==
    /\ wPapers = [id \in 1..MaxTargets |-> "absent"]
    /\ wRequests = [r \in 1..MaxWrites |-> NoWrite]

\* The two papers the user works with.
PaperKeys == {1, 2}

NoSavedRow == [saved |-> FALSE, tags |-> {}, qa_history |-> {}]
NoDraft == [paper |-> 0, tags |-> {}, qaHistory |-> {}]
NoQa == [asking |-> 0, persisting |-> 0]
NoSave == [paper |-> 0, tags |-> {}]

KIdle ==
    /\ currentPaper = 0
    /\ kCurrentPaperId = 0
    /\ currentTags = {}
    /\ currentQaHistory = {}
    /\ kServer = [p \in PaperKeys |-> NoSavedRow]
    /\ kDraft = NoDraft
    /\ kLoads = {}
    /\ kQa = NoQa
    /\ kSave = NoSave
    /\ kDelete = 0

SInit == SIdle /\ QIdle /\ AIdle /\ DIdle /\ FIdle /\ HIdle /\ VIdle /\ UIdle /\ LIdle /\ TIdle /\ RIdle /\ PIdle /\ BIdle /\ WIdle /\ KIdle

SpecSummarize == SInit /\ [][SNext]_vars

(***************************************************************************)
(* Q&A sources: tokenizeForQa and buildQaSources.                          *)
(*                                                                         *)
(* A text is a sequence of chunks, each a run of len characters of one     *)
(* class: "w" a run of letters, digits and hyphens (the first len          *)
(* characters of word id; up: with upper-case letters), "s" blanks, "n"    *)
(* line breaks, "p" one of . ! ?, "c" any other character, "e" the         *)
(* ellipsis character.  Two texts are the same string iff they are the     *)
(* same chunk sequence.                                                    *)
(***************************************************************************)
MinTokenLen == 3
MinPartLen == 40
ScoreFloor == 8
QaMaxLen == 220
QaSliceLen == 217
MaxSources == 3

W(id, len) == [k |-> "w", id |-> id, len |-> len, up |-> FALSE]
WU(id, len) == [k |-> "w", id |-> id, len |-> len, up |-> TRUE]
Sp(len) == [k |-> "s", id |-> 0, len |-> len, up |-> FALSE]
Nl(len) == [k |-> "n", id |-> 0, len |-> len, up |-> FALSE]
Dot == [k |-> "p", id |-> 0, len |-> 1, up |-> FALSE]
Comma == [k |-> "c", id |-> 0, len |-> 1, up |-> FALSE]
Ellipsis == [k |-> "e", id |-> 0, len |-> 1, up |-> FALSE]

IsSpace(c) == c.k \in {"s", "n"}

\* text.length
RECURSIVE StrLen(_)
StrLen(t) ==
    IF t = <<>> THEN 0
    ELSE IF Len(t) = 1 THEN t[1].len
    ELSE StrLen(SubSeq(t, 1, Len(t) \div 2)) + StrLen(SubSeq(t, Len(t) \div 2 + 1, Len(t)))

RECURSIVE QTrimStart(_)
QTrimStart(t) == IF t # <<>> /\ IsSpace(t[1]) THEN QTrimStart(Tail(t)) ELSE t

\* String.prototype.trimEnd
RECURSIVE QTrimEnd(_)
QTrimEnd(t) ==
    IF t # <<>> /\ IsSpace(t[Len(t)]) THEN QTrimEnd(SubSeq(t, 1, Len(t) - 1)) ELSE t

\* String.prototype.trim
QTrim(t) == QTrimEnd(QTrimStart(t))

\* String.prototype.toLowerCase
ToLower(t) == [i \in 1..Len(t) |-> [t[i] EXCEPT !.up = FALSE]]

\* replace(/\s+/g, " ")
\* The members of the set of positions S in increasing order.
InOrder(S) ==
    LET n == IF S = {} THEN 0 ELSE CHOOSE i \in S : \A j \in S : j <= i
    IN  SelectSeq([i \in 1..n |-> i], LAMBDA i : i \in S)

\* Each run of whitespace becomes one blank: the chunk that starts the run
\* is replaced and the rest of the run is dropped.
CollapseWs(t) ==
    LET kept == InOrder({i \in 1..Len(t) : ~IsSpace(t[i]) \/ i = 1 \/ ~IsSpace(t[i - 1])})
    IN  [k \in 1..Len(kept) |-> IF IsSpace(t[kept[k]]) THEN Sp(1) ELSE t[kept[k]]]

\* item.text.toLowerCase().replace(/\s+/g, " ")
NormalizedText(t) == CollapseWs(ToLower(t))

\* text.slice(0, n)
RECURSIVE Slice(_, _)
Slice(t, n) ==
    IF t = <<>> \/ n <= 0 THEN <<>>
    ELSE IF t[1].len <= n THEN <<t[1]>> \o Slice(Tail(t), n - t[1].len)
    ELSE <<[t[1] EXCEPT !.len = n]>>

\* The length of a token: a sequence of <<word id, length>> parts.
RECURSIVE TokenLen(_)
TokenLen(tok) == IF tok = <<>> THEN 0 ELSE tok[1][2] + TokenLen(Tail(tok))

\* toLowerCase().replace(/[^a-z0-9\s-]/g, " ").split(/\s+/): the maximal runs
\* of word chunks from position i on; cur is the run being read.
SplitWords(t, i, cur) ==
    LET starts == InOrder({a \in i..Len(t) :
                      t[a].k = "w" /\ (a = i \/ t[a - 1].k # "w")})
        RunEnd(a) == CHOOSE b \in a..Len(t) :
                        /\ \A m \in a..b : t[m].k = "w"
                        /\ (b = Len(t) \/ t[b + 1].k # "w")
    IN  [k \in 1..Len(starts) |->
            (IF k = 1 /\ starts[1] = i THEN cur ELSE <<>>)
            \o [m \in 1..(RunEnd(starts[k]) - starts[k] + 1) |->
                   <<t[starts[k] + m - 1].id, t[starts[k] + m - 1].len>>]]

\* .filter((t) => t.length >= 2): the filter with another threshold.
TokenizeForQaMin2(t) ==
    SelectSeq(SplitWords(t, 1, <<>>), LAMBDA tok : TokenLen(tok) >= 2)

\* tokenizeForQa(text)
TokenizeForQa(t) ==
    SelectSeq(SplitWords(t, 1, <<>>), LAMBDA tok : TokenLen(tok) >= MinTokenLen)

\* split(/\n+/).map(trim).filter(Boolean): the lines from position i on.
RECURSIVE SplitLines(_, _, _)
SplitLines(t, i, cur) ==
    LET done == IF QTrim(cur) = <<>> THEN <<>> ELSE <<QTrim(cur)>>
    IN  IF i > Len(t) THEN done
        ELSE IF t[i].k = "n" THEN done \o SplitLines(t, i + 1, <<>>)
        ELSE SplitLines(t, i + 1, Append(cur, t[i]))

\* line.split(/(?<=[.!?])\s+/g).map(trim): cut at each run of whitespace
\* that follows one of . ! ?
RECURSIVE SplitSentences(_, _, _)
SplitSentences(t, i, cur) ==
    IF i > Len(t) THEN <<QTrim(cur)>>
    ELSE IF IsSpace(t[i]) /\ i > 1 /\ t[i - 1].k = "p"
         THEN <<QTrim(cur)>> \o SplitSentences(QTrimStart(SubSeq(t, i, Len(t))), 1, <<>>)
         ELSE SplitSentences(t, i + 1, Append(cur, t[i]))

RECURSIVE FlatMapSentences(_)
FlatMapSentences(ls) ==
    IF ls = <<>> THEN <<>>
    ELSE SplitSentences(ls[1], 1, <<>>) \o FlatMapSentences(Tail(ls))

\* The candidate pool: the abstract whole, then the parts of the summary of
\* at least 40 characters.
Candidates(abstract, summary) ==
    LET a == QTrim(abstract)
        parts == FlatMapSentences(SplitLines(QTrim(summary), 1, <<>>))
        long == SelectSeq(parts, LAMBDA x : ~(StrLen(x) < MinPartLen))
    IN  (IF a # <<>> THEN <<[label |-> "Abstract", text |-> a]>> ELSE <<>>)
        \o [i \in 1..Len(long) |-> [label |-> "Summary", text |-> long[i]]]

\* The number of tokens of text that are question tokens.
Overlap(tokens, questionTokens) ==
    Cardinality({i \in 1..Len(tokens) : tokens[i] \in questionTokens})

\* sqrt(n) squared: the damping without its floor.
DampSquaredNoFloor(n) == n

\* max(8, sqrt(n)) squared
DampSquared(n) == IF ScoreFloor * ScoreFloor > n THEN ScoreFloor * ScoreFloor ELSE n

\* a.score > b.score, for score = cnt / max(8, sqrt(n)): the quotients are
\* compared by their squares, cross-multiplied.
ScoreGreater(a, b) ==
    a.cnt * a.cnt * DampSquared(b.n) > b.cnt * b.cnt * DampSquared(a.n)

\* .sort((a, b) => b.score - a.score): stable, descending.
RECURSIVE SortByScore(_)
SortByScore(cs) ==
    IF cs = <<>> THEN <<>>
    ELSE LET best == CHOOSE i \in 1..Len(cs) :
                        /\ \A j \in 1..Len(cs) : ~ScoreGreater(cs[j], cs[i])
                        /\ \A j \in 1..(i - 1) : ScoreGreater(cs[i], cs[j])
         IN  <<cs[best]>> \o SortByScore(SubSeq(cs, 1, best - 1) \o SubSeq(cs, best + 1, Len(cs)))

\* item.text.length > 220 ? item.text.slice(0, 217).trimEnd() + "…" : item.text
Truncate(text) ==
    IF StrLen(text) > QaMaxLen
    THEN Append(QTrimEnd(Slice(text, QaSliceLen)), Ellipsis)
    ELSE text

\* The loop over scored: skip a text seen before, push, stop at three.
RECURSIVE Collect(_, _, _, _)
Collect(scored, i, seen, out) ==
    IF i > Len(scored) THEN out
    ELSE LET normalized == NormalizedText(scored[i].text)
         IN  IF normalized \in seen THEN Collect(scored, i + 1, seen, out)
             ELSE LET out2 == Append(out, [label |-> scored[i].label,
                                           text |-> Truncate(scored[i].text)])
                  IN  IF Len(out2) >= MaxSources THEN out2
                      ELSE Collect(scored, i + 1, seen \cup {normalized}, out2)

\* buildQaSources({ question, paper })
BuildQaSources(question, abstract, summary) ==
    LET qt == TokenizeForQa(question)
        questionTokens == {qt[i] : i \in 1..Len(qt)}
        cands == Candidates(abstract, summary)
        withScore == [i \in 1..Len(cands) |->
                        LET tokens == TokenizeForQa(cands[i].text)
                        IN  [label |-> cands[i].label, text |-> cands[i].text,
                             cnt |-> Overlap(tokens, questionTokens), n |-> Len(tokens)]]
        scored == SortByScore(SelectSeq(withScore, LAMBDA c : c.cnt > 0))
    IN  IF questionTokens = {} THEN <<>>
        ELSE Collect(scored, 1, {}, <<>>)

\* Questions: words of three and of two characters, a blank and a
\* question mark.
QuestionChunks == {W(1, 3), W(2, 2), Dot}
Questions == SeqsUpTo(QuestionChunks, MaxQuestionChunks)

\* Parts of a summary, each with the separator that follows it: a sentence,
\* the same sentence in other casing and spacing, and two sentences of more
\* than 220 characters that agree on their first 217.
SummaryParts ==
    { <<W(1, 3), Sp(1), W(3, 40), Dot, Sp(1)>>,
      <<WU(1, 3), Sp(2), W(3, 40), Dot, Nl(1)>>,
      <<W(1, 3), Sp(1), W(3, 217), Sp(1), W(1, 3), Dot, Sp(1)>>,
      <<W(1, 3), Sp(1), W(3, 217), Sp(1), W(2, 2), Nl(2)>> }

RECURSIVE Concat(_)
Concat(ps) == IF ps = <<>> THEN <<>> ELSE ps[1] \o Concat(Tail(ps))

Summaries == {Concat(ps) : ps \in SeqsUpTo(SummaryParts, MaxSummaryParts)}

\* n more words, each after a blank.
RECURSIVE Filler(_)
Filler(n) == IF n = 0 THEN <<>> ELSE <<Sp(1), W(3, 40)>> \o Filler(n - 1)

\* Abstracts: none, two of the sentences above, one of three tokens and
\* one of 65 tokens (more than the square of the score floor).
Abstracts ==
    { <<>>,
      <<Sp(1), WU(1, 3), Sp(2), W(3, 40), Dot, Nl(1)>>,
      <<W(1, 3), Sp(1), W(3, 217), Sp(1), W(1, 3), Dot>>,
      <<W(1, 3)>> \o Filler(2),
      <<W(1, 3)>> \o Filler(ScoreFloor * ScoreFloor) }

QInit ==
    /\ SIdle
    /\ AIdle
    /\ DIdle
    /\ FIdle
    /\ HIdle
    /\ VIdle
    /\ UIdle
    /\ LIdle /\ TIdle /\ RIdle /\ PIdle /\ BIdle /\ WIdle /\ KIdle
    /\ qPc = "ready"
    /\ qQuestion \in Questions
    /\ qAbstract \in Abstracts
    /\ qSummary \in Summaries
    /\ qSources = <<>>

QaBuild ==
    /\ QFrame
    /\ qPc = "ready"
    /\ qSources' = BuildQaSources(qQuestion, qAbstract, qSummary)
    /\ qPc' = "done"
    /\ UNCHANGED <<qQuestion, qAbstract, qSummary>>

QNext == QaBuild

SpecQa == QInit /\ [][QNext]_vars

(***************************************************************************)
(* Claims about buildQaSources.                                            *)
(***************************************************************************)
\* C5 (as claimed): buildQaSources returns at most 3 entries, each text of at
\* most 221 characters, and no two entries with the same normalized
\* (lower-cased, whitespace-collapsed) text.
C5_SourcesBoundedAndDistinct ==
    qPc = "done" =>
        /\ Len(qSources) <= 3
        /\ \A i \in 1..Len(qSources) : StrLen(qSources[i].text) <= 221
        /\ \A i, j \in 1..Len(qSources) :
              i # j => NormalizedText(qSources[i].text) # NormalizedText(qSources[j].text)

\* The question has a run of letters, digits and hyphens of length >= 3.
QuestionHasLongToken ==
    \E tok \in {SplitWords(qQuestion, 1, <<>>)[i] :
                    i \in 1..Len(SplitWords(qQuestion, 1, <<>>))} : TokenLen(tok) >= 3

\* C6: when the question yields no token of length >= 3, buildQaSources
\* returns the empty array, whatever the abstract and the summary.
C6_NoTokenNoSources ==
    (qPc = "done" /\ ~QuestionHasLongToken) => qSources = <<>>

C6_Witness ==
    /\ qPc = "done"
    /\ qQuestion = <<W(2, 2), Dot>>
    /\ qSummary # <<>>
    /\ \E i \in 1..Len(qSummary) : qSummary[i] = W(2, 2)
    /\ qSources = <<>>

\* The candidates of the state, each with its raw overlap count cnt and
\* its token count n.
CandidateCounts ==
    LET cands == Candidates(qAbstract, qSummary)
        qt == TokenizeForQa(qQuestion)
    IN  [i \in 1..Len(cands) |->
            [label |-> cands[i].label, text |-> cands[i].text,
             cnt |-> Overlap(TokenizeForQa(cands[i].text), {qt[k] : k \in 1..Len(qt)}),
             n |-> Len(TokenizeForQa(cands[i].text))]]

\* f names, for each returned source, the candidate of cc it was made of.
IsOrigin(f, cc) ==
    /\ \A i, j \in 1..Len(qSources) : i # j => f[i] # f[j]
    /\ \A i \in 1..Len(qSources) :
          /\ qSources[i].label = cc[f[i]].label
          /\ qSources[i].text = Truncate(cc[f[i]].text)
          /\ cc[f[i]].cnt > 0

\* C22 (as claimed): every returned source has a positive overlap count,
\* and of two returned sources with the same raw overlap count and
\* different token counts the one with fewer tokens comes first.
C22_ShorterAlwaysAhead ==
    qPc = "done" =>
        LET cc == CandidateCounts
        IN  \E f \in [1..Len(qSources) -> 1..Len(cc)] :
                /\ IsOrigin(f, cc)
                /\ \A i, j \in 1..Len(qSources) :
                      (cc[f[i]].cnt = cc[f[j]].cnt /\ cc[f[i]].n < cc[f[j]].n) => i < j

\* C22 (amended): every returned source has a positive overlap count; of
\* two returned sources with the same raw overlap count the one with fewer
\* tokens comes first when the longer has more than 64 tokens; when both
\* have at most 64 tokens the one with the larger overlap count comes
\* first, and with equal counts they keep the order of the candidate pool
\* (abstract, then the summary parts in order).
C22_ShorterAheadAboveFloor ==
    qPc = "done" =>
        LET cc == CandidateCounts
        IN  \E f \in [1..Len(qSources) -> 1..Len(cc)] :
                /\ IsOrigin(f, cc)
                /\ \A i, j \in 1..Len(qSources) :
                      LET a == cc[f[i]]
                          b == cc[f[j]]
                      IN  /\ (a.cnt = b.cnt /\ a.n < b.n /\ b.n > 64) => i < j
                          /\ (a.n <= 64 /\ b.n <= 64 /\ a.cnt > b.cnt) => i < j
                          /\ (a.n <= 64 /\ b.n <= 64 /\ a.cnt = b.cnt /\ f[i] < f[j]) => i < j

\* A three-token abstract and a two-token summary sentence with the same
\* overlap count are both returned, the abstract first.
C22_Witness ==
    /\ qPc = "done"
    /\ qQuestion = <<W(1, 3)>>
    /\ qAbstract = <<W(1, 3)>> \o Filler(2)
    /\ qSummary = <<W(1, 3), Sp(1), W(3, 40), Dot, Sp(1)>>
    /\ Len(qSources) = 2
    /\ qSources[1].label = "Abstract"
    /\ qSources[2].label = "Summary"

(***************************************************************************)
(* Identifier Normalizer: extractArxivId(url).                             *)
(*                                                                         *)
(* A url is a sequence of tokens: a decimal digit, ".", "ABS" for the      *)
(* literal arxiv.org/abs/, "PDF" for the literal arxiv.org/pdf/, and "x"   *)
(* for any other character.                                                *)
(***************************************************************************)
IdPrefixDigits == 4
IdSuffixMin == 4
IdSuffixMax == 5

DigitNames == <<"0", "1", "2", "3", "4", "5", "6", "7", "8", "9">>
AllDigits == {DigitNames[i] : i \in 1..Len(DigitNames)}
IsDigit(t) == t \in AllDigits
IsDigDot(t) == IsDigit(t) \/ t = "."

SetMin(S) == CHOOSE x \in S : \A y \in S : x <= y

\* [0-9.]+ from position i, where it matches: the last position of the run.
RECURSIVE DigDotRunEnd(_, _)
DigDotRunEnd(s, i) ==
    IF i + 1 <= Len(s) /\ IsDigDot(s[i + 1]) THEN DigDotRunEnd(s, i + 1) ELSE i

NoMatch == <<"no match">>

\* url.match(/arxiv\.org\/abs\/([0-9.]+)/) and the same for pdf: group 1 of
\* the leftmost match.
CaptureAfter(s, lit) ==
    LET at == {i \in 1..(Len(s) - 1) : s[i] = lit /\ IsDigDot(s[i + 1])}
    IN  IF at = {} THEN NoMatch
        ELSE SubSeq(s, SetMin(at) + 1, DigDotRunEnd(s, SetMin(at) + 1))

\* The positions where [0-9]{4}\.[0-9]{lo,} matches.
BareAt(s, lo) ==
    {i \in 1..Len(s) :
        /\ i + IdPrefixDigits + lo <= Len(s)
        /\ \A k \in 0..(IdPrefixDigits - 1) : IsDigit(s[i + k])
        /\ s[i + IdPrefixDigits] = "."
        /\ \A k \in 1..lo : IsDigit(s[i + IdPrefixDigits + k])}

\* [0-9]{lo,hi} is greedy: the number of digits taken from position i on.
RECURSIVE DigitsTaken(_, _, _)
DigitsTaken(s, i, hi) ==
    IF hi > 0 /\ i <= Len(s) /\ IsDigit(s[i]) THEN 1 + DigitsTaken(s, i + 1, hi - 1) ELSE 0

CaptureBareWith(s, lo, hi) ==
    LET at == BareAt(s, lo)
    IN  IF at = {} THEN NoMatch
        ELSE LET i == SetMin(at)
             IN  SubSeq(s, i, i + IdPrefixDigits
                                + DigitsTaken(s, i + IdPrefixDigits + 1, hi))

\* /([0-9]{4}\.[0-9]{4})/ : the pattern without the fifth digit.
CaptureBareFourDigits(s) == CaptureBareWith(s, IdSuffixMin, IdSuffixMin)

\* url.match(/([0-9]{4}\.[0-9]{4,5})/)
CaptureBare(s) == CaptureBareWith(s, IdSuffixMin, IdSuffixMax)

Extracted(id) == [ok |-> TRUE, id |-> id, error |-> None]
Thrown(msg) == [ok |-> FALSE, id |-> <<>>, error |-> msg]

\* extractArxivId(url): the first pattern that matches decides.
ExtractArxivId(url) ==
    IF CaptureAfter(url, "ABS") # NoMatch THEN Extracted(CaptureAfter(url, "ABS"))
    ELSE IF CaptureAfter(url, "PDF") # NoMatch THEN Extracted(CaptureAfter(url, "PDF"))
    ELSE IF CaptureBare(url) # NoMatch THEN Extracted(CaptureBare(url))
    ELSE Thrown("Invalid ArXiv URL format")

Digits == {DigitNames[i] : i \in 1..NumDigits}

\* ArXiv ids: four digits, a dot, four or five digits.
ValidIds ==
    {p \o <<".">> \o q :
        p \in [1..IdPrefixDigits -> Digits],
        q \in UNION {[1..n -> Digits] : n \in IdSuffixMin..IdSuffixMax}}

\* The three forms of an argument that carries an id.
ArxivForm(kind, id) ==
    CASE kind = "abs" -> <<"x", "ABS">> \o id
      [] kind = "pdf" -> <<"x", "PDF">> \o id
      [] kind = "bare" -> id

ArxivTokens == Digits \cup {".", "ABS", "PDF", "x"}
RawInputs == SeqsUpTo(ArxivTokens, MaxRawLen)

AInit ==
    /\ SIdle
    /\ QIdle
    /\ DIdle
    /\ FIdle
    /\ HIdle
    /\ VIdle
    /\ UIdle
    /\ LIdle /\ TIdle /\ RIdle /\ PIdle /\ BIdle /\ WIdle /\ KIdle
    /\ aPc = "ready"
    /\ aResult = [ok |-> FALSE, id |-> <<>>, error |-> None]
    /\ \/ /\ aKind \in {"abs", "pdf", "bare"}
          /\ aId \in ValidIds
          /\ aInput = ArxivForm(aKind, aId)
       \/ /\ aKind = "raw"
          /\ aId = <<>>
          /\ aInput \in RawInputs

ExtractArxiv ==
    /\ AFrame
    /\ aPc = "ready"
    /\ aResult' = ExtractArxivId(aInput)
    /\ aPc' = "done"
    /\ UNCHANGED <<aKind, aId, aInput>>

ANext == ExtractArxiv

SpecArxiv == AInit /\ [][ANext]_vars

(***************************************************************************)
(* Claims about extractArxivId.                                            *)
(***************************************************************************)
\* No pattern of extractArxivId matches anywhere in the argument: no
\* arxiv.org/abs/ or arxiv.org/pdf/ followed by a digit or a dot, and no
\* four digits, dot, four digits.
MatchesNoPattern(s) ==
    /\ \A i \in 1..(Len(s) - 1) :
          s[i] \in {"ABS", "PDF"} => ~(IsDigit(s[i + 1]) \/ s[i + 1] = ".")
    /\ \A i \in 1..(Len(s) - 8) :
          ~(/\ \A k \in {0, 1, 2, 3, 5, 6, 7, 8} : IsDigit(s[i + k])
            /\ s[i + 4] = ".")

\* C7: for every valid ArXiv id, extractArxivId returns that id from the
\* .../abs/<id> form, from the .../pdf/<id> form and from the bare id; an
\* argument that matches no pattern fails with the invalid-format error.
C7_ArxivIdExtracted ==
    aPc = "done" =>
        /\ aKind \in {"abs", "pdf", "bare"} => aResult = [ok |-> TRUE, id |-> aId, error |-> None]
        /\ MatchesNoPattern(aInput) =>
              aResult = [ok |-> FALSE, id |-> <<>>, error |-> "Invalid ArXiv URL format"]

C7_Witness ==
    /\ aPc = "done"
    /\ aKind = "bare"
    /\ Len(aId) = 10
    /\ aResult.ok
    /\ aResult.id = aId

(***************************************************************************)
(* DOI: extractDOI(input) and the DOI fetchPaperByDOI(doi) looks up.       *)
(*                                                                         *)
(* Tokens: decimal digits, ".", "/", "a" for any other visible character,  *)
(* "SP" for whitespace, ":" a colon, "DOI" the three letters in any        *)
(* casing, "RES" the literal https://doi.org/ and "DXRES" the literal      *)
(* https://dx.doi.org/ (both end in doi.org/).                             *)
(***************************************************************************)
RegistrantMin == 4

IsResolver(t) == t \in {"RES", "DXRES"}

\* \d{4,} is greedy: the last position of the digit run that starts at i.
RECURSIVE DigitRunEnd(_, _)
DigitRunEnd(s, i) ==
    IF i + 1 <= Len(s) /\ IsDigit(s[i + 1]) THEN DigitRunEnd(s, i + 1) ELSE i

\* [^\s]+ is greedy: the last position of the run without whitespace from i.
RECURSIVE VisibleRunEnd(_, _)
VisibleRunEnd(s, i) ==
    IF i + 1 <= Len(s) /\ s[i + 1] # "SP" THEN VisibleRunEnd(s, i + 1) ELSE i

\* 10\.\d{4,}\/[^\s]+ tried at position i: the last position of the match, or 0.
DoiMatchEnd(s, i) ==
    IF /\ i + 3 <= Len(s)
       /\ s[i] = "1" /\ s[i + 1] = "0" /\ s[i + 2] = "."
       /\ IsDigit(s[i + 3])
    THEN LET e == DigitRunEnd(s, i + 3)
         IN  IF /\ e - (i + 3) + 1 >= RegistrantMin
                /\ e + 2 <= Len(s)
                /\ s[e + 1] = "/"
                /\ s[e + 2] # "SP"
             THEN VisibleRunEnd(s, e + 2)
             ELSE 0
    ELSE 0

\* [:\s]* from position i: the first position holding neither.
RECURSIVE SkipColonWs(_, _)
SkipColonWs(s, i) ==
    IF i <= Len(s) /\ s[i] \in {":", "SP"} THEN SkipColonWs(s, i + 1) ELSE i

\* input.match(/(10\.\d{4,}\/[^\s]+)/)
DoiPattern1(s) ==
    LET at == {i \in 1..Len(s) : DoiMatchEnd(s, i) > 0}
    IN  IF at = {} THEN NoMatch
        ELSE SubSeq(s, SetMin(at), DoiMatchEnd(s, SetMin(at)))

\* input.match(/doi\.org\/(10\.\d{4,}\/[^\s]+)/)
DoiPattern2(s) ==
    LET at == {i \in 1..Len(s) : IsResolver(s[i]) /\ DoiMatchEnd(s, i + 1) > 0}
    IN  IF at = {} THEN NoMatch
        ELSE SubSeq(s, SetMin(at) + 1, DoiMatchEnd(s, SetMin(at) + 1))

\* input.match(/DOI[:\s]*(10\.\d{4,}\/[^\s]+)/i); [:\s]* gives back what it
\* took only to let the DOI start, and a DOI starts with a digit.
DoiPattern3(s) ==
    LET at == {i \in 1..Len(s) :
                  s[i] = "DOI" /\ DoiMatchEnd(s, SkipColonWs(s, i + 1)) > 0}
    IN  IF at = {} THEN NoMatch
        ELSE LET b == SkipColonWs(s, SetMin(at) + 1)
             IN  SubSeq(s, b, DoiMatchEnd(s, b))

\* extractDOI(input): the first pattern that matches decides; null otherwise.
ExtractDOI(s) ==
    IF s = <<>> THEN NoMatch
    ELSE IF DoiPattern1(s) # NoMatch THEN DoiPattern1(s)
    ELSE IF DoiPattern2(s) # NoMatch THEN DoiPattern2(s)
    ELSE DoiPattern3(s)

\* doi.replace(/^https?:\/\/doi\.org\//, '').trim(): the path segment
\* requested under /works/ (percent-encoded on the wire, decoded by Crossref).
CleanDoi(doi) ==
    Trim(IF doi # <<>> /\ doi[1] = "RES" THEN Tail(doi) ELSE doi)

\* DOIs: 10. a registrant of four or five digits, a slash, a suffix.
DoiSuffixTokens == {"a", "1", ".", "/"}
Dois ==
    {<<"1", "0", ".">> \o r \o <<"/">> \o x :
        r \in UNION {[1..n -> Digits] : n \in RegistrantMin..(RegistrantMin + 1)},
        x \in SeqsUpTo(DoiSuffixTokens, MaxSuffixLen) \ {<<>>}}

DoiKinds == {"raw", "resolver", "dx resolver", "label", "label blank"}

\* The forms of an input that carries a DOI.
DoiForm(kind, doi) ==
    CASE kind = "raw" -> doi
      [] kind = "resolver" -> <<"RES">> \o doi
      [] kind = "dx resolver" -> <<"DXRES">> \o doi
      [] kind = "label" -> <<"DOI", ":">> \o doi
      [] kind = "label blank" -> <<"DOI", ":", "SP">> \o doi

DInit ==
    /\ SIdle
    /\ QIdle
    /\ AIdle
    /\ FIdle
    /\ HIdle
    /\ VIdle
    /\ UIdle
    /\ LIdle /\ TIdle /\ RIdle /\ PIdle /\ BIdle /\ WIdle /\ KIdle
    /\ dKind \in DoiKinds
    /\ dDoi \in Dois
    /\ dInput = DoiForm(dKind, dDoi)
    /\ dExtracted = NotApplied
    /\ dLookup = NotApplied

\* extractDOI applied to the input.
ExtractDoiApply ==
    /\ DFrame
    /\ dInput # <<>>
    /\ dExtracted = NotApplied
    /\ dExtracted' = ExtractDOI(dInput)
    /\ UNCHANGED <<dKind, dDoi, dInput, dLookup>>

\* POST /api/simplify/doi up to the request fetchPaperByDOI sends: the
\* handler passes req.body.doi to fetchPaperByDOI as it came.
SimplifyDoiLookup ==
    /\ DFrame
    /\ dInput # <<>>
    /\ dLookup = NotApplied
    /\ dLookup' = CleanDoi(dInput)
    /\ UNCHANGED <<dKind, dDoi, dInput, dExtracted>>

DNext == ExtractDoiApply \/ SimplifyDoiLookup

SpecDoi == DInit /\ [][DNext]_vars

(***************************************************************************)
(* Claims about DOIs.                                                      *)
(***************************************************************************)
\* C8 (as claimed): the DOI obtained from the raw DOI, from the DOI behind a
\* resolver URL and from the DOI behind the label DOI: is the same DOI, and
\* it is the DOI the Crossref fetcher looks up.
C8_SameDoiLookedUp ==
    /\ dExtracted # NotApplied => dExtracted = dDoi
    /\ dLookup # NotApplied => dLookup = dDoi

(***************************************************************************)
(* Source Fetchers: fetchArxivPaper, fetchPaperByDOI, fetchPaperByPMID and *)
(* fetchPaper followed by paperToSchema.                                   *)
(*                                                                         *)
(* Abstract text as tokens: "<" and ">", "w" for a run of other visible    *)
(* characters, "SP" a blank, "NL" a line break, "Abstract" that word.      *)
(***************************************************************************)
PmidMinDigits == 7
PmidMaxDigits == 9

\* <[^>]+> tried at position i: the position of the closing ">", or 0.
TagEnd(s, i) ==
    IF s[i] = "<" /\ i + 1 <= Len(s) /\ s[i + 1] # ">"
    THEN LET closes == {j \in (i + 2)..Len(s) : s[j] = ">"}
         IN  IF closes = {} THEN 0 ELSE SetMin(closes)
    ELSE 0

\* .replace(/<[^>]+>/g, '')
RECURSIVE StripTagsFrom(_, _)
StripTagsFrom(s, i) ==
    IF i > Len(s) THEN <<>>
    ELSE IF TagEnd(s, i) > 0 THEN StripTagsFrom(s, TagEnd(s, i) + 1)
    ELSE <<s[i]>> \o StripTagsFrom(s, i + 1)

StripTags(s) == StripTagsFrom(s, 1)

\* .replace(/\s+/g, ' ')
RECURSIVE CollapseFrom(_, _)
CollapseFrom(s, i) ==
    IF i > Len(s) THEN <<>>
    ELSE IF IsWs(s[i]) THEN <<"SP">> \o CollapseFrom(s, SkipWs(s, i))
    ELSE <<s[i]>> \o CollapseFrom(s, i + 1)

CollapseWhitespace(s) == CollapseFrom(s, 1)

\* .replace(/^Abstract\n/, '')
StripAbstractLabel(s) ==
    IF Len(s) >= 2 /\ s[1] = "Abstract" /\ s[2] = "NL" THEN SubSeq(s, 3, Len(s)) ELSE s

\* .replace(/\n\n/g, ' ')
RECURSIVE JoinParagraphsFrom(_, _)
JoinParagraphsFrom(s, i) ==
    IF i > Len(s) THEN <<>>
    ELSE IF i + 1 <= Len(s) /\ s[i] = "NL" /\ s[i + 1] = "NL"
    THEN <<"SP">> \o JoinParagraphsFrom(s, i + 2)
    ELSE <<s[i]>> \o JoinParagraphsFrom(s, i + 1)

JoinParagraphs(s) == JoinParagraphsFrom(s, 1)

\* entry.summary[0].trim().replace(/\s+/g, " ")
ArxivAbstract(body) == CollapseWhitespace(Trim(body))

\* work.abstract ? work.abstract.replace(tags).replace(whitespace).trim() : ''
CrossrefAbstract(body) == Trim(CollapseWhitespace(StripTags(body)))

\* text.replace(/^Abstract\n/, '').replace(/\n\n/g, ' ').trim()
PubmedAbstract(body) == Trim(JoinParagraphs(StripAbstractLabel(body)))

\* paperToSchema: data.abstract || ''
SchemaAbstract(body) == body

\* response.ok
Ok(status) == status >= 200 /\ status <= 299

Paper(abstract) == [made |-> TRUE, abstract |-> abstract]
FetchError(message, status) == [message |-> message, status |-> status]

\* !pmid || !/^\d{7,9}$/.test(pmid)
ValidPmid(pmid) ==
    /\ Len(pmid) >= PmidMinDigits
    /\ Len(pmid) <= PmidMaxDigits
    /\ \A i \in 1..Len(pmid) : IsDigit(pmid[i])

\* fetchArxivPaper: every failure inside the try, the 404 axios rejects with
\* and the empty feed alike, is rethrown with the same prefix.
ArxivOutcome(r) ==
    IF ~Ok(r.status)
    THEN [paper |-> NoPaper,
          error |-> FetchError("Failed to fetch paper: Request failed with status code", r.status)]
    ELSE IF r.empty
    THEN [paper |-> NoPaper,
          error |-> FetchError("Failed to fetch paper: Paper not found", 0)]
    ELSE [paper |-> Paper(ArxivAbstract(r.body)), error |-> NoFetchError]

\* fetchPaperByDOI
CrossrefOutcome(r) ==
    IF ~Ok(r.status)
    THEN IF r.status = 404
         THEN [paper |-> NoPaper, error |-> FetchError("DOI not found", 0)]
         ELSE [paper |-> NoPaper, error |-> FetchError("Crossref API error:", r.status)]
    ELSE [paper |-> Paper(CrossrefAbstract(r.body)), error |-> NoFetchError]

\* fetchPaperByPMID after the format check
PubmedOutcome(r) ==
    IF ~Ok(r.status)
    THEN [paper |-> NoPaper, error |-> FetchError("PubMed API error", 0)]
    ELSE IF r.empty
    THEN [paper |-> NoPaper, error |-> FetchError("PMID not found", 0)]
    ELSE [paper |-> Paper(IF Ok(r.absStatus) THEN PubmedAbstract(r.body) ELSE <<>>),
          error |-> NoFetchError]

\* fetchPaper, then paperToSchema on what it returned
SemanticScholarOutcome(r) ==
    IF ~Ok(r.status)
    THEN IF r.status = 404
         THEN [paper |-> NoPaper, error |-> FetchError("Paper not found", 0)]
         ELSE [paper |-> NoPaper, error |-> FetchError("Semantic Scholar API error:", r.status)]
    ELSE [paper |-> Paper(SchemaAbstract(r.body)), error |-> NoFetchError]

\* What the metadata APIs can answer.
Statuses == {200, 404, 500}
BodyTokens == {"<", ">", "w", "SP", "NL", "Abstract"}
Bodies == SeqsUpTo(BodyTokens, MaxBodyLen)

Failures == {[status |-> st, empty |-> FALSE, absStatus |-> 0, body |-> <<>>] :
                st \in Statuses \ {200}}
EmptyResult == [status |-> 200, empty |-> TRUE, absStatus |-> 0, body |-> <<>>]
Found == {[status |-> 200, empty |-> FALSE, absStatus |-> 0, body |-> b] : b \in Bodies}

\* An ArXiv feed may come without entries, an esummary result without the
\* PMID; Crossref and Semantic Scholar answer a lookup with the work or a
\* failure status.
ArxivResponses == Failures \cup {EmptyResult} \cup Found
CrossrefResponses == Failures \cup Found
SemanticScholarResponses == Failures \cup Found
PubmedResponses ==
    Failures \cup {EmptyResult}
    \cup {[status |-> 200, empty |-> FALSE, absStatus |-> 200, body |-> b] : b \in Bodies}
    \cup {[status |-> 200, empty |-> FALSE, absStatus |-> st, body |-> <<>>] :
             st \in Statuses \ {200}}

Pmids ==
    {[i \in 1..n |-> "1"] : n \in {PmidMinDigits - 1, PmidMinDigits, PmidMaxDigits}}
    \cup {[i \in 1..PmidMinDigits |-> IF i = 1 THEN "a" ELSE "1"]}

FetchArxivPaper ==
    /\ FFrame
    /\ fSource = None
    /\ \E r \in ArxivResponses :
        /\ fSource' = "arxiv"
        /\ fUpstream' = r
        /\ fPaper' = ArxivOutcome(r).paper
        /\ fError' = ArxivOutcome(r).error
    /\ fCalls' = fCalls + 1
    /\ UNCHANGED <<fPmid, fList>>

FetchPaperByDOI ==
    /\ FFrame
    /\ fSource = None
    /\ \E r \in CrossrefResponses :
        /\ fSource' = "crossref"
        /\ fUpstream' = r
        /\ fPaper' = CrossrefOutcome(r).paper
        /\ fError' = CrossrefOutcome(r).error
    /\ fCalls' = fCalls + 1
    /\ UNCHANGED <<fPmid, fList>>

FetchPaperByPMID ==
    /\ FFrame
    /\ fSource = None
    /\ \E pmid \in Pmids :
        /\ fSource' = "pubmed"
        /\ fPmid' = pmid
        /\ IF ~ValidPmid(pmid)
           THEN /\ fUpstream' = NoUpstream
                /\ fPaper' = NoPaper
                /\ fError' = FetchError("Invalid PMID format", 0)
                /\ fCalls' = fCalls
           ELSE \E r \in PubmedResponses :
                /\ fUpstream' = r
                /\ fPaper' = PubmedOutcome(r).paper
                /\ fError' = PubmedOutcome(r).error
                \* esummary, then efetch once the record is there
                /\ fCalls' = fCalls + (IF PubmedOutcome(r).paper.made THEN 2 ELSE 1)
    /\ UNCHANGED fList

FetchPaper ==
    /\ FFrame
    /\ fSource = None
    /\ \E r \in SemanticScholarResponses :
        /\ fSource' = "semanticscholar"
        /\ fUpstream' = r
        /\ fPaper' = SemanticScholarOutcome(r).paper
        /\ fError' = SemanticScholarOutcome(r).error
    /\ fCalls' = fCalls + 1
    /\ UNCHANGED <<fPmid, fList>>

\* What the citations, references and similar-papers endpoints can answer:
\* a failure status, or a page of items (data.data, absent when empty).
ListResponses ==
    Failures \cup
    {[status |-> 200, empty |-> n = 0, absStatus |-> 0, body |-> [i \in 1..n |-> "item"]] :
        n \in 0..MaxItems}

\* if (!response.ok) return []; const data = await response.json();
\* return data.data || []
ListOutcome(r) ==
    IF ~Ok(r.status)
    THEN [list |-> [returned |-> TRUE, items |-> 0], error |-> NoFetchError]
    ELSE [list |-> [returned |-> TRUE, items |-> IF r.empty THEN 0 ELSE Len(r.body)],
          error |-> NoFetchError]

\* One request to /paper/<id>/<name>, answered by r.
ListCall(name, r) ==
    /\ fSource' = name
    /\ fUpstream' = r
    /\ fList' = ListOutcome(r).list
    /\ fError' = ListOutcome(r).error
    /\ fCalls' = fCalls + 1
    /\ UNCHANGED <<fPmid, fPaper>>

GetCitations ==
    /\ FFrame
    /\ fSource = None
    /\ \E r \in ListResponses : ListCall("citations", r)

GetReferences ==
    /\ FFrame
    /\ fSource = None
    /\ \E r \in ListResponses : ListCall("references", r)

GetRelatedPapers ==
    /\ FFrame
    /\ fSource = None
    /\ \E r \in ListResponses : ListCall("similar", r)

FInit == SIdle /\ QIdle /\ AIdle /\ DIdle /\ FIdle /\ HIdle /\ VIdle /\ UIdle /\ LIdle /\ TIdle /\ RIdle /\ PIdle /\ BIdle /\ WIdle /\ KIdle

FNext ==
    \/ FetchArxivPaper
    \/ FetchPaperByDOI
    \/ FetchPaperByPMID
    \/ FetchPaper
    \/ GetCitations
    \/ GetReferences
    \/ GetRelatedPapers

SpecFetch == FInit /\ [][FNext]_vars

(***************************************************************************)
(* Claims about the Source Fetchers.                                       *)
(***************************************************************************)
HasMarkup(s) ==
    \E i, j \in 1..Len(s) :
        /\ s[i] = "<"
        /\ s[j] = ">"
        /\ j > i + 1
        /\ \A k \in (i + 1)..(j - 1) : s[k] # ">"

\* Some whitespace in s is not a blank standing alone.
HasWhitespaceRun(s) ==
    \E i \in 1..Len(s) :
        \/ s[i] = "NL"
        \/ IsWs(s[i]) /\ i < Len(s) /\ IsWs(s[i + 1])

\* C9 (as claimed): the abstract of a returned Paper has no HTML/XML markup
\* and no whitespace other than single blanks, whichever fetcher returned it.
C9_AbstractClean ==
    fPaper.made => ~HasMarkup(fPaper.abstract) /\ ~HasWhitespaceRun(fPaper.abstract)

NotFoundMessages ==
    {"DOI not found", "PMID not found", "Paper not found",
     "Failed to fetch paper: Paper not found"}

\* C10 (as claimed): a fetcher whose upstream answered 404 or an empty result
\* set fails with a not-found error and returns no Paper.
C10_NotFoundOn404OrEmpty ==
    (fSource # None /\ (fUpstream.status = 404 \/ fUpstream.empty)) =>
        /\ ~fPaper.made
        /\ fError.message \in NotFoundMessages

\* C11 (as claimed): a non-2xx answer other than 404 makes every fetcher call,
\* the citations, references and similar-papers calls included, fail with an
\* error that carries the upstream status, after a single outbound request.
C11_UpstreamErrorCarriesStatus ==
    (fSource # None /\ ~Ok(fUpstream.status) /\ fUpstream.status # 404) =>
        /\ fError.message # None
        /\ fError.status = fUpstream.status
        /\ fCalls = 1

(***************************************************************************)
(* The simplify endpoints: POST /api/simplify, /api/simplify/doi,          *)
(* /api/simplify/pubmed and /api/simplify/pdf.                             *)
(*                                                                         *)
(* simplifyPaper is taken by its outcome here: the LLM calls it issued and *)
(* whether it resolved.  A response is recorded with its cause: "missing"  *)
(* (a required field is absent), "malformed" (the identifier has no valid  *)
(* form), "unreadable" (too little text in the PDF), "notfound" (the       *)
(* metadata API answered 404 or an empty result), "upstream" (another      *)
(* failure of the metadata API), "parse" (pdf-parse rejected the file),    *)
(* "summarization" (simplifyPaper rejected), "storage" (the upload         *)
(* failed).                                                                *)
(***************************************************************************)
MinPdfTextLen == 200

Respond(status, cause, error) == [status |-> status, cause |-> cause, error |-> error]

\* simplifyPaper(paperData, style): resolved or rejected, after these calls.
SummaryOutcomes ==
    {[ok |-> ok, calls |-> calls] :
        ok \in BOOLEAN, calls \in {<<"summary">>, <<"summary", "keyterms">>}}

\* res.json({ success: true, ... }) or the catch block of the handler.
SummaryResponse(o) ==
    IF o.ok THEN Respond(200, None, None)
    ELSE Respond(500, "summarization", "Failed to generate summary")

\* Why a fetcher produced no Paper, by what the metadata API answered.
FetchCause(r) ==
    IF r.status = 404 \/ (Ok(r.status) /\ r.empty) THEN "notfound" ELSE "upstream"

\* One lookup answer of each kind.
RouteResponses(withEmpty) ==
    Failures
    \cup (IF withEmpty THEN {EmptyResult} ELSE {})
    \cup {[status |-> 200, empty |-> FALSE, absStatus |-> 200, body |-> <<"w">>]}

\* POST /api/simplify
SimplifyArxivResponse(arxivUrl, r, o) ==
    IF arxivUrl = <<>> THEN Respond(400, "missing", "ArXiv URL is required")
    ELSE IF ~ExtractArxivId(arxivUrl).ok
    THEN Respond(500, "malformed", ExtractArxivId(arxivUrl).error)
    ELSE IF ~ArxivOutcome(r).paper.made
    THEN Respond(500, FetchCause(r), ArxivOutcome(r).error.message)
    ELSE SummaryResponse(o)

\* POST /api/simplify/doi
SimplifyDoiResponse(doi, r, o) ==
    IF doi = <<>> THEN Respond(400, "missing", "DOI is required")
    ELSE IF ~CrossrefOutcome(r).paper.made
    THEN Respond(500, FetchCause(r), CrossrefOutcome(r).error.message)
    ELSE SummaryResponse(o)

\* POST /api/simplify/pubmed
SimplifyPubmedResponse(pmid, r, o) ==
    IF pmid = <<>> THEN Respond(400, "missing", "PMID is required")
    ELSE IF ~ValidPmid(pmid) THEN Respond(500, "malformed", "Invalid PMID format")
    ELSE IF ~PubmedOutcome(r).paper.made
    THEN Respond(500, FetchCause(r), PubmedOutcome(r).error.message)
    ELSE SummaryResponse(o)

\* The LLM calls a fetch-and-summarize handler issued.
RouteCalls(response, o) ==
    IF response.cause \in {None, "summarization"} THEN o.calls ELSE <<>>

ArxivUrls == {<<>>, <<"a">>} \cup {ArxivForm("abs", id) : id \in {[i \in 1..9 |-> IF i = 5 THEN "." ELSE "1"]}}
DoiInputs == {<<>>, <<"1", "0", ".", "1", "1", "1", "1", "/", "a">>}

SimplifyArxiv ==
    /\ HFrame
    /\ hPc = "idle"
    /\ \E arxivUrl \in ArxivUrls, r \in RouteResponses(TRUE), o \in SummaryOutcomes :
        /\ hResponse' = SimplifyArxivResponse(arxivUrl, r, o)
        /\ hLlm' = RouteCalls(SimplifyArxivResponse(arxivUrl, r, o), o)
    /\ hRoute' = "arxiv"
    /\ hPc' = "responded"
    /\ UNCHANGED <<hText, hStorage, hExtraction, hMeta, hUploads>>

SimplifyDoi ==
    /\ HFrame
    /\ hPc = "idle"
    /\ \E doi \in DoiInputs, r \in RouteResponses(FALSE), o \in SummaryOutcomes :
        /\ hResponse' = SimplifyDoiResponse(doi, r, o)
        /\ hLlm' = RouteCalls(SimplifyDoiResponse(doi, r, o), o)
    /\ hRoute' = "doi"
    /\ hPc' = "responded"
    /\ UNCHANGED <<hText, hStorage, hExtraction, hMeta, hUploads>>

SimplifyPubmed ==
    /\ HFrame
    /\ hPc = "idle"
    /\ \E pmid \in Pmids \cup {<<>>}, r \in RouteResponses(TRUE), o \in SummaryOutcomes :
        /\ hResponse' = SimplifyPubmedResponse(pmid, r, o)
        /\ hLlm' = RouteCalls(SimplifyPubmedResponse(pmid, r, o), o)
    /\ hRoute' = "pubmed"
    /\ hPc' = "responded"
    /\ UNCHANGED <<hText, hStorage, hExtraction, hMeta, hUploads>>

\* The text of an upload after rawText.replace(/\r\n/g, "\n").trim(): len is
\* its length, pad the length of what trimming took away; titleLine says one
\* of the first 40 lines has 10 to 180 characters and a letter, authorsLine
\* that one of the 5 lines after it reads like authors, abstractSection that
\* an abstract heading with text under it is found.
PdfTextLens == {0, 150, 199, 200, 2000}
PdfTexts ==
    [parsed : {TRUE}, len : PdfTextLens, pad : {0, 60}, titleLine : BOOLEAN,
     authorsLine : BOOLEAN, abstractSection : BOOLEAN]

\* text.length < 200, on the raw text instead of the trimmed one.
PdfTextTooShortUntrimmed(text) == text.len + text.pad < MinPdfTextLen

\* text.length < 200
PdfTextTooShort(text) == text.len < MinPdfTextLen

\* guessTitleAuthorsFromPdfText(text)
GuessTitleAuthors(text) ==
    [title |-> IF text.titleLine THEN "guessed" ELSE "Uploaded PDF",
     authors |-> IF text.titleLine /\ text.authorsLine THEN "guessed" ELSE ""]

\* clampText(extractAbstractFromPdfText(text), 4000)
ExtractAbstract(text) == IF text.abstractSection THEN "section" ELSE ""

\* Step 2 of the handler: the heuristics fill what the labeled blocks left
\* empty; the excerpt of the first 1800 characters is the last resort.
ApplyFallback(meta, text) ==
    LET guessing == meta.title = "" \/ meta.title = "Uploaded PDF"
    IN  [title |-> IF meta.title = "" THEN GuessTitleAuthors(text).title ELSE meta.title,
         authors |-> IF guessing /\ meta.authors = ""
                     THEN GuessTitleAuthors(text).authors ELSE meta.authors,
         abstract |-> IF meta.abstract # "" THEN meta.abstract
                      ELSE IF ExtractAbstract(text) # "" THEN ExtractAbstract(text)
                      ELSE "excerpt"]

\* parseLabeledPdfExtraction(raw), clamped: each block present or empty; the
\* model may also answer with the placeholder title.
MetaReplies ==
    [title : {"", "llm", "Uploaded PDF"}, authors : {"", "llm"}, abstract : {"", "llm"}]

\* The catch block around the extraction call, made to answer the request.
MetadataFailureSurfaced(text) ==
    [pc |-> "responded", meta |-> NoMeta,
     response |-> Respond(500, "metadata", "Failed to process PDF")]

\* The catch block around the extraction call: empty, the handler goes on.
MetadataFailure(text) ==
    [pc |-> "summarizing", meta |-> ApplyFallback(NoMeta, text), response |-> NoResponse]

\* POST /api/simplify/pdf up to the metadata-extraction request.
PdfUpload ==
    /\ HFrame
    /\ hPc = "idle"
    /\ hRoute' = "pdf"
    /\ hStorage' \in {"supabase", "disk"}
    /\ \/ \* no file in the request
          /\ hResponse' = Respond(400, "missing", "PDF is required")
          /\ hPc' = "responded"
          /\ UNCHANGED <<hText, hLlm>>
       \/ \* pdfParse(buffer) rejects
          /\ hResponse' = Respond(500, "parse", "Failed to process PDF")
          /\ hPc' = "responded"
          /\ UNCHANGED <<hText, hLlm>>
       \/ \E text \in PdfTexts :
          /\ hText' = text
          /\ IF PdfTextTooShort(text)
             THEN /\ hResponse' = Respond(400, "unreadable",
                                          "Could not extract enough text from this PDF")
                  /\ hPc' = "responded"
                  /\ hLlm' = hLlm
             ELSE /\ hResponse' = hResponse
                  /\ hPc' = "awaitMetadata"
                  /\ hLlm' = Append(hLlm, "metadata")
    /\ UNCHANGED <<hExtraction, hMeta, hUploads>>

\* The extraction completion resolves; its content parses to reply.
PdfMetadataReply ==
    /\ HFrame
    /\ hPc = "awaitMetadata"
    /\ \E reply \in MetaReplies :
        /\ hExtraction' = IF reply = NoMeta THEN "unusable" ELSE "parsed"
        /\ hMeta' = ApplyFallback(reply, hText)
    /\ hPc' = "summarizing"
    /\ UNCHANGED <<hRoute, hText, hStorage, hLlm, hUploads, hResponse>>

\* The extraction completion rejects.
PdfMetadataFail ==
    /\ HFrame
    /\ hPc = "awaitMetadata"
    /\ hExtraction' = "rejected"
    /\ hMeta' = MetadataFailure(hText).meta
    /\ hPc' = MetadataFailure(hText).pc
    /\ hResponse' = MetadataFailure(hText).response
    /\ UNCHANGED <<hRoute, hText, hStorage, hLlm, hUploads>>

\* simplifyPaper({ title, abstract }, style) settles; the PDF is stored and
\* the response sent.
PdfSummarized ==
    /\ HFrame
    /\ hPc = "summarizing"
    /\ \E o \in SummaryOutcomes, stored \in BOOLEAN :
        /\ hLlm' = hLlm \o o.calls
        /\ IF ~o.ok
           THEN /\ hResponse' = SummaryResponse(o)
                /\ hUploads' = hUploads
           ELSE IF hStorage = "supabase"
           THEN /\ hUploads' = hUploads + 1
                /\ hResponse' = IF stored THEN Respond(200, None, None)
                                ELSE Respond(500, "storage", "Failed to upload PDF to storage")
           ELSE \* multer wrote the file to the uploads directory
                /\ hUploads' = hUploads
                /\ hResponse' = Respond(200, None, None)
    /\ hPc' = "responded"
    /\ UNCHANGED <<hRoute, hText, hStorage, hExtraction, hMeta>>

HInit == SIdle /\ QIdle /\ AIdle /\ DIdle /\ FIdle /\ HIdle /\ VIdle /\ UIdle /\ LIdle /\ TIdle /\ RIdle /\ PIdle /\ BIdle /\ WIdle /\ KIdle

HNext ==
    \/ SimplifyArxiv
    \/ SimplifyDoi
    \/ SimplifyPubmed
    \/ PdfUpload
    \/ PdfMetadataReply
    \/ PdfMetadataFail
    \/ PdfSummarized

SpecEndpoints == HInit /\ [][HNext]_vars

(***************************************************************************)
(* Claims about the simplify endpoints.                                    *)
(***************************************************************************)
\* C12: when the text extracted from the uploaded PDF has fewer than 200
\* characters, the request is answered with the unreadable-PDF error, no LLM
\* call is made and nothing is uploaded to object storage.
C12_ShortPdfNoLlmCall ==
    (hRoute = "pdf" /\ hText.parsed /\ hText.len < 200) =>
        /\ hPc = "responded"
        /\ hResponse = Respond(400, "unreadable", "Could not extract enough text from this PDF")
        /\ hLlm = <<>>
        /\ hUploads = 0
        /\ ~ENABLED HNext

C12_Witness ==
    /\ hRoute = "pdf"
    /\ hText.parsed
    /\ hText.len = 199
    /\ hText.pad = 60
    /\ hStorage = "supabase"
    /\ hPc = "responded"

\* C13: a metadata-extraction call that rejects, or whose output yields no
\* block, is never the request's error: title, authors and abstract come from
\* the heuristics and simplifyPaper is called.
C13_MetadataFailureFallsBack ==
    hExtraction \in {"rejected", "unusable"} =>
        /\ hMeta.title = GuessTitleAuthors(hText).title
        /\ hMeta.authors = GuessTitleAuthors(hText).authors
        /\ hMeta.abstract = (IF hText.abstractSection THEN "section" ELSE "excerpt")
        /\ hResponse.cause \in {None, "summarization", "storage"}
        /\ hPc \in {"summarizing", "responded"}
        /\ hPc = "responded" => Len(hLlm) >= 2 /\ hLlm[2] = "summary"

C13_Witness ==
    /\ hExtraction = "rejected"
    /\ hPc = "responded"
    /\ hResponse.status = 200
    /\ hMeta = [title |-> "guessed", authors |-> "", abstract |-> "excerpt"]

\* C18 (as claimed): a malformed identifier or an unreadable PDF is answered
\* with a 4xx status, a paper the metadata API does not have with 404, and a
\* 5xx status answers none of these.
C18_StatusByErrorKind ==
    hPc = "responded" =>
        /\ hResponse.cause \in {"malformed", "unreadable"} =>
              hResponse.status >= 400 /\ hResponse.status <= 499
        /\ hResponse.cause = "notfound" => hResponse.status = 404
        /\ hResponse.status >= 500 =>
              hResponse.cause \notin {"missing", "malformed", "unreadable", "notfound"}

(***************************************************************************)
(* The serverless entry point api/index.js: handler(req, res) in front of  *)
(* the Express app.  Invocations of one function instance share            *)
(* cachedHandler and cachedInitError and interleave at their awaits.       *)
(*                                                                         *)
(* A URL is a sequence of pieces of its text, so that startsWith is the    *)
(* prefix test on pieces.                                                  *)
(***************************************************************************)
HealthPath == <<"/api", "/health">>
DbHealthPath == <<"/api", "/health", "/db">>

\* url.startsWith(prefix)
StartsWith(url, prefix) ==
    Len(url) >= Len(prefix) /\ SubSeq(url, 1, Len(prefix)) = prefix

\* Every request is handed to the Express app.
RouteAllToApp(url) == "app"

\* The branch of handler() a URL takes.
Route(url) ==
    IF StartsWith(url, DbHealthPath) THEN "db"
    ELSE IF StartsWith(url, HealthPath) THEN "health"
    ELSE "app"

\* sendJson(res, 200, { status: "ok", message: "Paper Plain API is running", ... })
HealthReply == [statusCode |-> 200, body |-> "status ok, Paper Plain API is running"]

\* sendJson(res, 500, { success: false, message: "Server initialization failed", ... })
InitFailedReply == [statusCode |-> 500, body |-> "Server initialization failed"]

\* What the Express app may write for a request.
AppReplies ==
    {[statusCode |-> 200, body |-> "success"],
     [statusCode |-> 201, body |-> "ok"],
     [statusCode |-> 404, body |-> "not found"]}

\* req.url of an invocation; the empty sequence is a request without url.
Urls ==
    {<<>>,
     <<"/api", "/health">>,
     <<"/api", "/health", "?x">>,
     <<"/api", "/health", "/db">>,
     <<"/api", "/anything">>,
     <<"/x", "/api", "/health">>}

\* A wrapper that answers 200 whatever the app's status.
ClientReceivesOk(reply) == [statusCode |-> 200, body |-> reply.body]

\* return expressHandler(req, res): the app is given the client's res.
ClientReceives(reply) == reply

Finish(r, reply) ==
    vRequests' = [vRequests EXCEPT ![r].pc = "done", ![r].res = reply]

\* handler(req, res) from its entry to its first await that leaves the
\* function, or to its response.
Invoke(r, url) ==
    /\ VFrame
    /\ vRequests[r].pc = "idle"
    /\ CASE Route(url) = "db" ->
              /\ vRequests' = [vRequests EXCEPT ![r].url = url, ![r].pc = "awaitDb"]
              /\ UNCHANGED <<cachedHandler, cachedInitError>>
         [] Route(url) = "health" ->
              /\ vRequests' = [vRequests EXCEPT ![r].url = url, ![r].pc = "done",
                                                ![r].res = HealthReply]
              /\ UNCHANGED <<cachedHandler, cachedInitError>>
         [] Route(url) = "app" ->
              \* getExpressHandler()
              /\ IF cachedHandler
                 THEN vRequests' = [vRequests EXCEPT ![r].url = url, ![r].pc = "inApp"]
                 ELSE IF cachedInitError
                 THEN vRequests' = [vRequests EXCEPT ![r].url = url, ![r].pc = "done",
                                                     ![r].res = InitFailedReply]
                 ELSE vRequests' = [vRequests EXCEPT ![r].url = url, ![r].pc = "importing",
                                                     ![r].imported = TRUE]
              /\ UNCHANGED <<cachedHandler, cachedInitError>>

\* import("../server.js") resolves in time: the app is wrapped, cached and called.
ImportDone(r) ==
    /\ VFrame
    /\ vRequests[r].pc = "importing"
    /\ cachedHandler' = TRUE
    /\ vRequests' = [vRequests EXCEPT ![r].pc = "inApp"]
    /\ UNCHANGED cachedInitError

\* import("../server.js") rejects or takes more than 8000 ms.
ImportFail(r) ==
    /\ VFrame
    /\ vRequests[r].pc = "importing"
    /\ cachedInitError' = TRUE
    /\ Finish(r, InitFailedReply)
    /\ UNCHANGED cachedHandler

\* expressHandler(req, res): the app writes its reply to the same res.
AppReply(r, reply) ==
    /\ VFrame
    /\ vRequests[r].pc = "inApp"
    /\ vRequests' = [vRequests EXCEPT ![r].pc = "done", ![r].app = reply,
                                      ![r].res = ClientReceives(reply)]
    /\ UNCHANGED <<cachedHandler, cachedInitError>>

\* dbHealthCheck() resolves with ok.
DbHealthReply(r, ok) ==
    /\ VFrame
    /\ vRequests[r].pc = "awaitDb"
    /\ Finish(r, [statusCode |-> 200, body |-> IF ok THEN "ok true" ELSE "ok false"])
    /\ UNCHANGED <<cachedHandler, cachedInitError>>

\* import("../db.js") or dbHealthCheck() rejects, or the check takes more than 6000 ms.
DbHealthFail(r) ==
    /\ VFrame
    /\ vRequests[r].pc = "awaitDb"
    /\ Finish(r, [statusCode |-> 503, body |-> "Database check failed"])
    /\ UNCHANGED <<cachedHandler, cachedInitError>>

VInit == SIdle /\ QIdle /\ AIdle /\ DIdle /\ FIdle /\ HIdle /\ VIdle /\ UIdle /\ LIdle /\ TIdle /\ RIdle /\ PIdle /\ BIdle /\ WIdle /\ KIdle

VNext ==
    \E r \in 1..MaxRequests :
        \/ \E url \in Urls : Invoke(r, url)
        \/ ImportDone(r)
        \/ ImportFail(r)
        \/ \E reply \in AppReplies : AppReply(r, reply)
        \/ \E ok \in BOOLEAN : DbHealthReply(r, ok)
        \/ DbHealthFail(r)

SpecHandler == VInit /\ [][VNext]_vars

(***************************************************************************)
(* Claims about api/index.js.                                              *)
(***************************************************************************)
IsHealthUrl(url) == StartsWith(url, HealthPath) /\ ~StartsWith(url, DbHealthPath)

Importing == \E r \in 1..MaxRequests : vRequests[r].pc = "importing"

\* C15: a request whose URL starts with /api/health, the database check
\* aside, is answered 200 with status "ok" and "Paper Plain API is running"
\* by the handler itself, without importing or initializing the Express app,
\* whatever the state of the handler cache.
C15_HealthWithoutExpress ==
    \A r \in 1..MaxRequests :
        (vRequests[r].pc # "idle" /\ IsHealthUrl(vRequests[r].url)) =>
            /\ vRequests[r].pc = "done"
            /\ vRequests[r].res = HealthReply
            /\ ~vRequests[r].imported
            /\ vRequests[r].app = NoReply

\* Health requests answered while the app is being initialized and after the
\* initialization has failed.
C15_Witness ==
    /\ vRequests[1].pc = "importing"
    /\ vRequests[2].res = HealthReply
    /\ IsHealthUrl(vRequests[2].url)
    /\ ~cachedHandler
    /\ ~cachedInitError

WrappersCreated ==
    Cardinality({r \in 1..MaxRequests :
        vRequests[r].imported /\ (vRequests[r].pc = "inApp" \/ vRequests[r].app # NoReply)})

\* An invocation for the Express app that starts when an initialization
\* failure is recorded is answered 500 "Server initialization failed"
\* without importing.
FailureIsFinal ==
    \A r \in 1..MaxRequests :
        (/\ cachedInitError
         /\ vRequests[r].pc = "idle"
         /\ vRequests'[r].pc # "idle"
         /\ Route(vRequests'[r].url) = "app") =>
            /\ vRequests'[r].pc = "done"
            /\ vRequests'[r].res = InitFailedReply
            /\ ~vRequests'[r].imported

\* C27 (as claimed): in any interleaving of invocations the Express wrapper
\* is created at most once, cachedHandler and cachedInitError are never both
\* set, and an invocation for the app that starts after an initialization
\* failure was recorded is answered 500 "Server initialization failed"
\* without a new initialization.
C27_InitializedOnceOrFailedForGood ==
    /\ [](WrappersCreated <= 1 /\ ~(cachedHandler /\ cachedInitError))
    /\ [][FailureIsFinal]_vars

(***************************************************************************)
(* The frontend's saved papers: loadSavedPapers, loadSavedPaper and        *)
(* deleteSavedPaper of public/script.js.  Papers are their ids; the user   *)
(* may act while a request of deleteSavedPaper is in flight.               *)
(***************************************************************************)
PaperIds == 1..MaxPapers

\* The papers of a set in the order the server lists them.
RECURSIVE ListOf(_)
ListOf(S) == IF S = {} THEN <<>> ELSE <<SetMin(S)>> \o ListOf(S \ {SetMin(S)})

Elements(list) == {list[i] : i \in 1..Len(list)}

\* renderSavedList(): the list with the loaded paper marked active.
Render(list, current) == [drawn |-> TRUE, list |-> list, active |-> current]

\* The try block after the DELETE, with currentPaperId left as it is.
DeleteSucceededKeepingCurrent(list, current, deletingId) ==
    [savedPapers |-> SelectSeq(list, LAMBDA p : p # deletingId),
     currentPaperId |-> current,
     rendered |-> Render(SelectSeq(list, LAMBDA p : p # deletingId), current)]

\* savedPapers = savedPapers.filter((p) => p.id !== deletingId);
\* currentPaperId = null; ...; renderSavedList();
DeleteSucceeded(list, current, deletingId) ==
    [savedPapers |-> SelectSeq(list, LAMBDA p : p # deletingId),
     currentPaperId |-> 0,
     rendered |-> Render(SelectSeq(list, LAMBDA p : p # deletingId), 0)]

\* The server side: a paper is saved for the user (from this page or another).
ServerSave(p) ==
    /\ UFrame
    /\ p \notin uServer
    /\ uServer' = uServer \cup {p}
    /\ UNCHANGED <<savedPapers, currentPaperId, uDelete, uRendered>>

\* The server side: a paper is removed from another page or session.
ServerRemove(p) ==
    /\ UFrame
    /\ p \in uServer
    /\ uServer' = uServer \ {p}
    /\ UNCHANGED <<savedPapers, currentPaperId, uDelete, uRendered>>

\* loadSavedPapers(): the list is fetched, assigned and drawn; a failed fetch
\* is logged and changes nothing.
LoadSavedPapers(ok) ==
    /\ UFrame
    /\ IF ok
       THEN /\ savedPapers' = ListOf(uServer)
            /\ uRendered' = Render(ListOf(uServer), currentPaperId)
       ELSE UNCHANGED <<savedPapers, uRendered>>
    /\ UNCHANGED <<currentPaperId, uServer, uDelete>>

\* loadSavedPaper(paper): a click on an entry of the sidebar.
LoadSavedPaper(p) ==
    /\ UFrame
    /\ uRendered.drawn
    /\ p \in Elements(uRendered.list)
    /\ currentPaperId' = p
    /\ UNCHANGED <<savedPapers, uServer, uDelete, uRendered>>

\* deleteSavedPaper() up to the DELETE request; the button is disabled until
\* the call ends.
DeleteStart ==
    /\ UFrame
    /\ uDelete.pc = "idle"
    /\ currentPaperId # 0
    /\ uDelete' = [pc |-> "awaiting", deletingId |-> currentPaperId, outcome |-> None]
    /\ UNCHANGED <<savedPapers, currentPaperId, uServer, uRendered>>

\* The DELETE request succeeds.
DeleteOk ==
    /\ UFrame
    /\ uDelete.pc = "awaiting"
    /\ uDelete.deletingId \in uServer
    /\ uServer' = uServer \ {uDelete.deletingId}
    /\ LET after == DeleteSucceeded(savedPapers, currentPaperId, uDelete.deletingId)
       IN  /\ savedPapers' = after.savedPapers
           /\ currentPaperId' = after.currentPaperId
           /\ uRendered' = after.rendered
    /\ uDelete' = [uDelete EXCEPT !.pc = "idle", !.outcome = "ok"]

\* The DELETE request fails (network, 401, 404, 500): a toast, nothing else;
\* the server may or may not have removed the paper.
DeleteFail ==
    /\ UFrame
    /\ uDelete.pc = "awaiting"
    /\ uDelete' = [uDelete EXCEPT !.pc = "idle", !.outcome = "failed"]
    /\ UNCHANGED <<savedPapers, currentPaperId, uServer, uRendered>>

UInit == SIdle /\ QIdle /\ AIdle /\ DIdle /\ FIdle /\ HIdle /\ VIdle /\ UIdle /\ LIdle /\ TIdle /\ RIdle /\ PIdle /\ BIdle /\ WIdle /\ KIdle

UNext ==
    \/ \E p \in PaperIds : ServerSave(p)
    \/ \E p \in PaperIds : ServerRemove(p)
    \/ \E ok \in BOOLEAN : LoadSavedPapers(ok)
    \/ \E p \in PaperIds : LoadSavedPaper(p)
    \/ DeleteStart
    \/ DeleteOk
    \/ DeleteFail

SpecSavedPapers == UInit /\ [][UNext]_vars

(***************************************************************************)
(* Claims about the saved papers of the frontend.                          *)
(***************************************************************************)
\* A step that ends deleteSavedPaper after a successful DELETE leaves
\* currentPaperId null, the deleted paper out of savedPapers, the others in,
\* and the list drawn from the new savedPapers.
DeletedEffect ==
    (uDelete.pc = "awaiting" /\ uDelete'.outcome = "ok") =>
        /\ currentPaperId' = 0
        /\ uDelete.deletingId \notin Elements(savedPapers')
        /\ \A p \in Elements(savedPapers) :
              p # uDelete.deletingId => p \in Elements(savedPapers')
        /\ uRendered' = Render(savedPapers', 0)

\* A step that ends deleteSavedPaper after a failed DELETE.
DeleteFailedEffect ==
    (uDelete.pc = "awaiting" /\ uDelete'.outcome = "failed") =>
        /\ currentPaperId' = currentPaperId
        /\ savedPapers' = savedPapers

\* C17: when deleteSavedPaper ends after a successful DELETE, currentPaperId
\* is null, the deleted paper is not in savedPapers and the list has been
\* drawn again; when the DELETE fails, currentPaperId and savedPapers are as
\* they were.
C17_DeleteFrameEffect ==
    [][DeletedEffect /\ DeleteFailedEffect]_vars

\* A delete that succeeded after the user had opened another saved paper.
C17_Witness ==
    /\ uDelete.outcome = "ok"
    /\ uDelete.deletingId = 1
    /\ currentPaperId = 0
    /\ savedPapers = <<2>>
    /\ uRendered = Render(<<2>>, 0)

(***************************************************************************)
(* Reading lists: POST /api/lists and PUT /api/lists/:id for a signed-in   *)
(* user with the database configured.  reading_lists is the sequence of    *)
(* rows, a row's id being its position (id SERIAL); values are text, Null  *)
(* stands for SQL NULL and for a field the request body does not carry.    *)
(***************************************************************************)
Users == {"u1", "u2"}

\* The text of an integer id.
IdText(i) == DigitNames[i + 1]

\* COALESCE(param, column)
Coalesce(param, column) == IF param # Null THEN param ELSE column

\* The UPDATE of PUT /api/lists/:id, bound to [name, description, is_public]:
\*   SET name = COALESCE($1, name), description = COALESCE($2, description),
\*       is_public = COALESCE($3, is_public)
\*   WHERE id = $1 AND user_id = $2
\* $1 is the name and $2 the description, in the WHERE clause too; a
\* comparison with NULL selects no row.
UpdateMatches(rows, p1, p2) ==
    {i \in 1..Len(rows) : p1 # Null /\ p2 # Null /\ IdText(i) = p1 /\ rows[i].user_id = p2}

UpdateRows(rows, p1, p2, p3) ==
    [i \in 1..Len(rows) |->
        IF i \in UpdateMatches(rows, p1, p2)
        THEN [rows[i] EXCEPT !.name = Coalesce(p1, @),
                             !.description = Coalesce(p2, @),
                             !.is_public = Coalesce(p3, @)]
        ELSE rows[i]]

\* The outcome of the handler.  PostgreSQL deduces text for $1 from
\* COALESCE($1, name) and then has no operator for id = $1: the statement
\* is rejected (typed) and the catch block answers 500; were the comparison
\* carried out on the text of the id, the rows above would be updated.
PutOutcome(rows, name, description, is_public, typed) ==
    IF typed THEN [rows |-> rows, status |-> 500]
    ELSE IF UpdateMatches(rows, name, description) = {}
    THEN [rows |-> rows, status |-> 404]
    ELSE [rows |-> UpdateRows(rows, name, description, is_public), status |-> 200]

ListNames == {"a", "1"}
ListDescriptions == {Null, "u1"}

\* POST /api/lists with a name: INSERT ... VALUES (req.user.id, name.trim(),
\* description || null, is_public || false)
CreateList(user, name, description) ==
    /\ LFrame
    /\ ~lPut.pending
    /\ Len(reading_lists) < MaxLists
    /\ reading_lists' = Append(reading_lists,
          [user_id |-> user, name |-> name, description |-> description,
           is_public |-> "false"])
    /\ UNCHANGED lPut

\* PUT /api/lists/:id by user, with these fields in the body.
PutList(user, id, name, description, is_public, typed) ==
    /\ LFrame
    /\ ~lPut.pending
    /\ reading_lists' = PutOutcome(reading_lists, name, description, is_public, typed).rows
    /\ lPut' = [pending |-> TRUE, user |-> user, id |-> id, name |-> name,
                description |-> description, is_public |-> is_public,
                status |-> PutOutcome(reading_lists, name, description, is_public, typed).status,
                before |-> reading_lists]

\* The response has been sent.
PutDone ==
    /\ LFrame
    /\ lPut.pending
    /\ lPut' = NoPut
    /\ UNCHANGED reading_lists

LInit == SIdle /\ QIdle /\ AIdle /\ DIdle /\ FIdle /\ HIdle /\ VIdle /\ UIdle /\ LIdle /\ TIdle /\ RIdle /\ PIdle /\ BIdle /\ WIdle /\ KIdle

LNext ==
    \/ \E user \in Users, name \in ListNames, description \in ListDescriptions :
          CreateList(user, name, description)
    \/ \E user \in Users, id \in 1..(MaxLists + 1), name \in ListNames \cup {Null},
          description \in ListDescriptions, is_public \in {Null, "true"}, typed \in BOOLEAN :
          PutList(user, id, name, description, is_public, typed)
    \/ PutDone

SpecLists == LInit /\ [][LNext]_vars

(***************************************************************************)
(* Claims about reading lists.                                             *)
(***************************************************************************)
\* The requester owns a list with the id of the request.
OwnsList == lPut.id <= Len(lPut.before) /\ lPut.before[lPut.id].user_id = lPut.user

\* C19 (as claimed): PUT /api/lists/:id replaces the supplied fields of the
\* list with that id owned by the requester and answers 200, leaves every
\* other list unchanged, and answers 404, changing nothing, when the
\* requester owns no list with that id.
C19_PutUpdatesOwnListOnly ==
    lPut.pending =>
        /\ Len(reading_lists) = Len(lPut.before)
        /\ \A i \in 1..Len(reading_lists) :
              (i # lPut.id \/ ~OwnsList) => reading_lists[i] = lPut.before[i]
        /\ OwnsList =>
              /\ lPut.status = 200
              /\ reading_lists[lPut.id] =
                    [user_id |-> lPut.user,
                     name |-> Coalesce(lPut.name, lPut.before[lPut.id].name),
                     description |-> Coalesce(lPut.description, lPut.before[lPut.id].description),
                     is_public |-> Coalesce(lPut.is_public, lPut.before[lPut.id].is_public)]
        /\ ~OwnsList => lPut.status = 404

(***************************************************************************)
(* withTimeout(promise, ms, label): Promise.race of the operation and a    *)
(* timer, followed by finally(() => clearTimeout(timer)).  A macrotask     *)
(* (the operation settling, the timer firing, time passing) runs only      *)
(* when the microtask queue tJobs is empty.                                *)
(***************************************************************************)
Outcomes == {"fulfilled", "rejected"}

\* Promise.race: the first settlement wins, later ones are ignored.
RaceSettleLast(race, outcome) == outcome

RaceSettle(race, outcome) == IF race = "pending" THEN outcome ELSE race

\* withTimeout(promise, ms) is called with a pending operation: the timer is
\* armed and the race is pending.
CallWithTimeout(c, ms) ==
    /\ TFrame
    /\ tJobs = <<>>
    /\ tCalls[c] = NotCalled
    /\ tCalls' = [tCalls EXCEPT ![c] =
          [ms |-> ms, elapsed |-> 0, op |-> "pending", timer |-> "armed", first |-> None,
           race |-> "pending", cleared |-> FALSE, returned |-> "pending"]]
    /\ UNCHANGED tJobs

\* Time passes for call c while its timer is armed.
Tick(c) ==
    /\ TFrame
    /\ tJobs = <<>>
    /\ tCalls[c].timer = "armed"
    /\ tCalls[c].elapsed < tCalls[c].ms
    /\ tCalls' = [tCalls EXCEPT ![c].elapsed = @ + 1]
    /\ UNCHANGED tJobs

\* The operation of call c settles: the race's reaction is queued.
OpSettle(c, outcome) ==
    /\ TFrame
    /\ tJobs = <<>>
    /\ tCalls[c].op = "pending"
    /\ tCalls' = [tCalls EXCEPT ![c].op = outcome,
                                ![c].first = IF tCalls[c].timer = "fired" THEN @ ELSE "op"]
    /\ tJobs' = Append(tJobs, [call |-> c, kind |-> "race", outcome |-> outcome])

\* setTimeout callback after ms: the timeout promise rejects.
TimerFire(c) ==
    /\ TFrame
    /\ tJobs = <<>>
    /\ tCalls[c].timer = "armed"
    /\ tCalls[c].elapsed = tCalls[c].ms
    /\ tCalls' = [tCalls EXCEPT ![c].timer = "fired",
                                ![c].first = IF tCalls[c].op = "pending" THEN "timer" ELSE @]
    /\ tJobs' = Append(tJobs, [call |-> c, kind |-> "race", outcome |-> "timeout"])

\* A reaction of Promise.race runs: the race settles if it has not, and
\* then its finally callback is queued.
RaceJob ==
    /\ TFrame
    /\ tJobs # <<>>
    /\ Head(tJobs).kind = "race"
    /\ LET c == Head(tJobs).call
           settled == RaceSettle(tCalls[c].race, Head(tJobs).outcome)
       IN  /\ tCalls' = [tCalls EXCEPT ![c].race = settled]
           /\ tJobs' = IF settled # tCalls[c].race
                       THEN Append(Tail(tJobs), [call |-> c, kind |-> "finally",
                                                 outcome |-> settled])
                       ELSE Tail(tJobs)

\* .finally(() => clearTimeout(timer)): the timer is cleared and the
\* returned promise settles as the race did.
FinallyJob ==
    /\ TFrame
    /\ tJobs # <<>>
    /\ Head(tJobs).kind = "finally"
    /\ LET c == Head(tJobs).call
       IN  tCalls' = [tCalls EXCEPT ![c].cleared = TRUE,
                                    ![c].timer = IF @ = "armed" THEN "cleared" ELSE @,
                                    ![c].returned = Head(tJobs).outcome]
    /\ tJobs' = Tail(tJobs)

TInit == SIdle /\ QIdle /\ AIdle /\ DIdle /\ FIdle /\ HIdle /\ VIdle /\ UIdle /\ LIdle /\ TIdle /\ RIdle /\ PIdle /\ BIdle /\ WIdle /\ KIdle

TNext ==
    \/ \E c \in 1..MaxCalls, ms \in 1..MaxMs : CallWithTimeout(c, ms)
    \/ \E c \in 1..MaxCalls : Tick(c)
    \/ \E c \in 1..MaxCalls, outcome \in Outcomes : OpSettle(c, outcome)
    \/ \E c \in 1..MaxCalls : TimerFire(c)
    \/ RaceJob
    \/ FinallyJob

SpecTimeout == TInit /\ [][TNext]_vars

(***************************************************************************)
(* Claims about withTimeout.                                               *)
(***************************************************************************)
\* C23: once the promise returned by withTimeout has settled, it carries the
\* operation's own outcome when the operation settled before the timer
\* fired and the timeout rejection otherwise; clearTimeout has been called
\* and the timer is no longer armed; and an operation that timed out and is
\* still pending can still settle.
C23_TimeoutStopsWaitingOnly ==
    \A c \in 1..MaxCalls :
        /\ tCalls[c].returned \notin {"none", "pending"} =>
              /\ tCalls[c].first = "op" => tCalls[c].returned = tCalls[c].op
              /\ tCalls[c].first = "timer" => tCalls[c].returned = "timeout"
              /\ tCalls[c].cleared
              /\ tCalls[c].timer # "armed"
        /\ (tCalls[c].first = "timer" /\ tCalls[c].op = "pending" /\ tJobs = <<>>) =>
              ENABLED OpSettle(c, "fulfilled")

\* A call timed out, its caller got the timeout rejection, and the
\* operation completed afterwards.
C23_Witness ==
    \E c \in 1..MaxCalls :
        /\ tCalls[c].returned = "timeout"
        /\ tCalls[c].op = "fulfilled"
        /\ tCalls[c].cleared
        /\ tJobs = <<>>

(***************************************************************************)
(* Concurrent summarize requests in one process: each runs simplifyPaper,  *)
(* which obtains the client from getGroqClient (module variable            *)
(* cachedGroq) and awaits its own completions.                             *)
(***************************************************************************)
\* groq.chat.completions.create issued by request r: one outbound call per
\* invocation.
IssueCallCoalesced(llm, r) ==
    IF \E q \in DOMAIN llm : q # r /\ llm[q] > 0 THEN llm ELSE [llm EXCEPT ![r] = @ + 1]

IssueCall(llm, r) == [llm EXCEPT ![r] = @ + 1]

\* Another request is awaiting a completion.
OthersInFlight(r) ==
    \E q \in 1..MaxRequests : q # r /\ rRequests[q].pc \in {"awaitPrimary", "awaitRepair"}

ConcurrentStyles == {"simple", "tldr"}
ConcurrentContents == { <<"w">>, <<"Key", "SP", "Terms", ":">>, <<"w", "NL", "key", "Terms", ":">> }

\* simplifyPaper is entered: getGroqClient returns the cached client, or
\* awaits the import of groq-sdk when there is none yet.
RequestStart(r, style) ==
    /\ RFrame
    /\ rRequests[r].pc = "idle"
    /\ IF cachedGroq # 0
       THEN /\ rRequests' = [rRequests EXCEPT ![r].style = style, ![r].pc = "awaitPrimary",
                                              ![r].client = cachedGroq,
                                              ![r].overlapped = OthersInFlight(r)]
            /\ rLlm' = IssueCall(rLlm, r)
       ELSE /\ rRequests' = [rRequests EXCEPT ![r].style = style, ![r].pc = "importing"]
            /\ rLlm' = rLlm
    /\ UNCHANGED cachedGroq

\* getGroqClient after the import: cachedGroq = new Groq(...), whatever it
\* held, and the first completion is requested from that client.
RequestClientReady(r) ==
    /\ RFrame
    /\ rRequests[r].pc = "importing"
    /\ cachedGroq' = r
    /\ rRequests' = [rRequests EXCEPT ![r].pc = "awaitPrimary", ![r].client = r,
                                      ![r].overlapped = OthersInFlight(r)]
    /\ rLlm' = IssueCall(rLlm, r)

\* The first completion of request r resolves.
RequestPrimaryReply(r, content) ==
    /\ RFrame
    /\ rRequests[r].pc = "awaitPrimary"
    /\ LET text == ReplaceHeadings(Trim(content))
       IN  IF NeedsRepair(rRequests[r].style, text)
           THEN /\ rRequests' = [rRequests EXCEPT ![r].primary = Resolved(content),
                                                  ![r].text = text,
                                                  ![r].pc = "awaitRepair"]
                /\ rLlm' = IssueCall(rLlm, r)
           ELSE /\ rRequests' = [rRequests EXCEPT ![r].primary = Resolved(content),
                                                  ![r].text = text,
                                                  ![r].result = text,
                                                  ![r].pc = "done"]
                /\ rLlm' = rLlm
    /\ UNCHANGED cachedGroq

\* The first completion of request r rejects.
RequestPrimaryFail(r, msg) ==
    /\ RFrame
    /\ rRequests[r].pc = "awaitPrimary"
    /\ rRequests' = [rRequests EXCEPT ![r].primary = Rejected(msg),
                                      ![r].pc = "failed",
                                      ![r].error = SummaryError(msg)]
    /\ UNCHANGED <<cachedGroq, rLlm>>

\* The key-terms completion of request r resolves.
RequestRepairReply(r, content) ==
    /\ RFrame
    /\ rRequests[r].pc = "awaitRepair"
    /\ rRequests' = [rRequests EXCEPT
          ![r].repair = Resolved(content),
          ![r].result = AppendKeyTerms(rRequests[r].text, ReplaceHeadings(Trim(content))),
          ![r].pc = "done"]
    /\ UNCHANGED <<cachedGroq, rLlm>>

\* The key-terms completion of request r rejects.
RequestRepairFail(r, msg) ==
    /\ RFrame
    /\ rRequests[r].pc = "awaitRepair"
    /\ rRequests' = [rRequests EXCEPT
          ![r].repair = Rejected(msg),
          ![r].pc = RepairFailure(rRequests[r].text, msg).pc,
          ![r].result = RepairFailure(rRequests[r].text, msg).result,
          ![r].error = RepairFailure(rRequests[r].text, msg).error]
    /\ UNCHANGED <<cachedGroq, rLlm>>

RInit ==
    SIdle /\ QIdle /\ AIdle /\ DIdle /\ FIdle /\ HIdle /\ VIdle /\ UIdle /\ LIdle /\ TIdle /\ RIdle /\ PIdle /\ BIdle /\ WIdle /\ KIdle

RNext ==
    \/ \E r \in 1..MaxRequests, style \in ConcurrentStyles : RequestStart(r, style)
    \/ \E r \in 1..MaxRequests : RequestClientReady(r)
    \/ \E r \in 1..MaxRequests, content \in ConcurrentContents : RequestPrimaryReply(r, content)
    \/ \E r \in 1..MaxRequests : RequestPrimaryFail(r, "rate limit")
    \/ \E r \in 1..MaxRequests, content \in ConcurrentContents : RequestRepairReply(r, content)
    \/ \E r \in 1..MaxRequests : RequestRepairFail(r, "rate limit")

SpecConcurrent == RInit /\ [][RNext]_vars

(***************************************************************************)
(* Claims about concurrent requests.                                       *)
(***************************************************************************)
\* What simplifyPaper(paper, style) gives when it runs alone and its
\* completions settle as primary and repair.
AloneOutcome(style, primary, repair) ==
    IF primary.status = "failed"
    THEN [pc |-> "failed", result |-> Undefined, error |-> SummaryError(primary.message),
          calls |-> 1]
    ELSE LET text == ReplaceHeadings(Trim(primary.content))
         IN  IF style = "tldr" \/ HasKeyTerms(text)
             THEN [pc |-> "done", result |-> text, error |-> NoError, calls |-> 1]
             ELSE IF repair.status = "failed"
             THEN [pc |-> "failed", result |-> Undefined,
                   error |-> SummaryError(repair.message), calls |-> 2]
             ELSE [pc |-> "done", calls |-> 2, error |-> NoError,
                   result |-> IF Trim(repair.content) = <<>> THEN text
                              ELSE Trim(text \o <<"NL", "NL">>
                                        \o ReplaceHeadings(Trim(repair.content)))]

\* The LLM calls request r has issued.
CallsOf(r) == rLlm[r]

Deleted == "deleted"

\* The row with this id exists.
Exists(table, id) == id \in 1..Len(table) /\ table[id] # Deleted

\* WHERE id = $1 AND user_id = $2
OwnedBy(table, id, user) == Exists(table, id) /\ table[id] = user

Answer(user, status, rows) ==
    [pending |-> TRUE, user |-> user, status |-> status, rows |-> rows,
     before |-> [papers |-> papers, items |-> reading_list_items]]

\* POST /api/papers/import: INSERT INTO papers (user_id, ...)
ImportPaper(user) ==
    /\ PFrame
    /\ ~pReply.pending
    /\ Len(papers) < MaxRows
    /\ papers' = Append(papers, user)
    /\ pReply' = Answer(user, 200, {})
    /\ UNCHANGED <<pLists, reading_list_items>>

\* POST /api/lists: INSERT INTO reading_lists (user_id, ...)
PostList(user) ==
    /\ PFrame
    /\ ~pReply.pending
    /\ Len(pLists) < MaxRows
    /\ pLists' = Append(pLists, user)
    /\ pReply' = Answer(user, 200, {})
    /\ UNCHANGED <<papers, reading_list_items>>

\* GET /api/papers/:id
GetPaper(user, id) ==
    /\ PFrame
    /\ ~pReply.pending
    /\ pReply' = IF OwnedBy(papers, id, user) THEN Answer(user, 200, {id})
                 ELSE Answer(user, 404, {})
    /\ UNCHANGED <<papers, pLists, reading_list_items>>

\* DELETE /api/papers/:id; the items that refer to the paper go with it
\* (ON DELETE CASCADE).
DeletePaper(user, id) ==
    /\ PFrame
    /\ ~pReply.pending
    /\ IF OwnedBy(papers, id, user)
       THEN /\ papers' = [papers EXCEPT ![id] = Deleted]
            /\ reading_list_items' = {it \in reading_list_items : it[2] # id}
            /\ pReply' = Answer(user, 200, {})
       ELSE /\ UNCHANGED <<papers, reading_list_items>>
            /\ pReply' = Answer(user, 404, {})
    /\ UNCHANGED pLists

\* GET /api/lists/:id: the list WHERE id = $1 AND user_id = $2, then
\* SELECT p.* FROM reading_list_items rlp JOIN papers p ON p.id = rlp.paper_id
\* WHERE rlp.list_id = $1
GetList(user, list) ==
    /\ PFrame
    /\ ~pReply.pending
    /\ pReply' = IF OwnedBy(pLists, list, user)
                 THEN Answer(user, 200, {it[2] : it \in {x \in reading_list_items : x[1] = list}})
                 ELSE Answer(user, 404, {})
    /\ UNCHANGED <<papers, pLists, reading_list_items>>

\* POST /api/lists/:id/papers: INSERT INTO reading_list_items (list_id,
\* paper_id, ...) ON CONFLICT DO UPDATE; a missing list or paper violates
\* the foreign key and the catch block answers 500.
AddListPaper(user, list, paper) ==
    /\ PFrame
    /\ ~pReply.pending
    /\ IF Exists(pLists, list) /\ Exists(papers, paper)
       THEN /\ reading_list_items' = reading_list_items \cup {<<list, paper>>}
            /\ pReply' = Answer(user, 200, {})
       ELSE /\ UNCHANGED reading_list_items
            /\ pReply' = Answer(user, 500, {})
    /\ Cardinality(reading_list_items') <= MaxRows
    /\ UNCHANGED <<papers, pLists>>

\* DELETE /api/lists/:id/papers/:paperId: DELETE FROM reading_list_items
\* WHERE list_id = $1 AND paper_id = $2
RemoveListPaper(user, list, paper) ==
    /\ PFrame
    /\ ~pReply.pending
    /\ reading_list_items' = reading_list_items \ {<<list, paper>>}
    /\ pReply' = Answer(user, 200, {})
    /\ UNCHANGED <<papers, pLists>>

\* The response has been sent.
AnswerSent ==
    /\ PFrame
    /\ pReply.pending
    /\ pReply' = NoAnswer
    /\ UNCHANGED <<papers, pLists, reading_list_items>>

PInit ==
    SIdle /\ QIdle /\ AIdle /\ DIdle /\ FIdle /\ HIdle /\ VIdle /\ UIdle /\ LIdle /\ TIdle
          /\ RIdle /\ PIdle /\ BIdle /\ WIdle /\ KIdle

PNext ==
    \/ \E user \in Users : ImportPaper(user)
    \/ \E user \in Users : PostList(user)
    \/ \E user \in Users, id \in 1..MaxRows : GetPaper(user, id)
    \/ \E user \in Users, id \in 1..MaxRows : DeletePaper(user, id)
    \/ \E user \in Users, list \in 1..MaxRows : GetList(user, list)
    \/ \E user \in Users, list \in 1..MaxRows, paper \in 1..MaxRows :
          AddListPaper(user, list, paper)
    \/ \E user \in Users, list \in 1..MaxRows, paper \in 1..MaxRows :
          RemoveListPaper(user, list, paper)
    \/ AnswerSent

SpecOwnership == PInit /\ [][PNext]_vars

(***************************************************************************)
(* Claims about ownership.                                                 *)
(***************************************************************************)
\* C25 (as claimed): the answer to a request carries only paper rows owned
\* by the requesting user, and the request has changed or deleted no paper
\* row of another user and no item of a reading list of another user.
C25_NoAccessAcrossUsers ==
    pReply.pending =>
        /\ \A p \in pReply.rows : pReply.before.papers[p] = pReply.user
        /\ \A p \in 1..Len(pReply.before.papers) :
              papers[p] # pReply.before.papers[p] => pReply.before.papers[p] = pReply.user
        /\ \A list \in 1..Len(pLists) :
              {it \in reading_list_items : it[1] = list}
                 # {it \in pReply.before.items : it[1] = list}
              => pLists[list] = pReply.user

(***************************************************************************)
(* getAuth: the wrapper of the server (cachedAuth of server.js, here       *)
(* serverCachedAuth) around getAuth of auth.js (cachedAuth, initPromise).  *)
(***************************************************************************)
\* cachedAuth !== undefined
IsCachedTruthy(v) == v = "auth"

IsCached(v) == v # "undefined"

\* The server's getAuth is called: it returns its cached value or awaits
\* import("./auth.js").
ServerGetAuth(c) ==
    /\ BFrame
    /\ bCalls[c].pc = "idle"
    /\ bCalls' = [bCalls EXCEPT ![c] =
          IF IsCached(serverCachedAuth)
          THEN [pc |-> "resolved", promise |-> 0, value |-> serverCachedAuth]
          ELSE [pc |-> "importing", promise |-> 0, value |-> "undefined"]]
    /\ UNCHANGED <<cachedAuth, initPromise, serverCachedAuth, bEnv, bPromises, bConstructed>>

\* authModule.getAuth() is called: the cached value, the initialization in
\* flight, or a new initialization, which without DATABASE_URL finishes at
\* once with cachedAuth = null.
AuthGetAuth(c) ==
    /\ BFrame
    /\ bCalls[c].pc = "importing"
    /\ IF IsCached(cachedAuth)
       THEN /\ bCalls' = [bCalls EXCEPT ![c] =
                  [pc |-> "settled", promise |-> 0, value |-> cachedAuth]]
            /\ UNCHANGED <<cachedAuth, initPromise, bPromises>>
       ELSE IF initPromise # 0
       THEN /\ bCalls' = [bCalls EXCEPT ![c] =
                  [pc |-> "awaiting", promise |-> initPromise, value |-> "undefined"]]
            /\ UNCHANGED <<cachedAuth, initPromise, bPromises>>
       ELSE /\ bPromises' = Append(bPromises, IF bEnv THEN "pending" ELSE "null")
            /\ initPromise' = Len(bPromises) + 1
            /\ cachedAuth' = IF bEnv THEN cachedAuth ELSE "null"
            /\ bCalls' = [bCalls EXCEPT ![c] =
                  [pc |-> "awaiting", promise |-> Len(bPromises) + 1, value |-> "undefined"]]
    /\ UNCHANGED <<serverCachedAuth, bEnv, bConstructed>>

\* The initialization in flight ends: betterAuth(...) returned the provider
\* (ok), or an import or the constructor threw; finally clears initPromise.
InitSettles(ok) ==
    /\ BFrame
    /\ initPromise # 0
    /\ bPromises[initPromise] = "pending"
    /\ cachedAuth' = IF ok THEN "auth" ELSE "null"
    /\ bConstructed' = IF ok THEN bConstructed + 1 ELSE bConstructed
    /\ bPromises' = [bPromises EXCEPT ![initPromise] = IF ok THEN "auth" ELSE "null"]
    /\ initPromise' = 0
    /\ UNCHANGED <<serverCachedAuth, bEnv, bCalls>>

\* A call awaiting a settled promise resumes with its value.
AuthResolved(c) ==
    /\ BFrame
    /\ bCalls[c].pc = "awaiting"
    /\ bPromises[bCalls[c].promise] # "pending"
    /\ bCalls' = [bCalls EXCEPT ![c].pc = "settled",
                                ![c].value = bPromises[bCalls[c].promise]]
    /\ UNCHANGED <<cachedAuth, initPromise, serverCachedAuth, bEnv, bPromises, bConstructed>>

\* The wrapper stores the value and returns it.
ServerCaches(c) ==
    /\ BFrame
    /\ bCalls[c].pc = "settled"
    /\ serverCachedAuth' = bCalls[c].value
    /\ bCalls' = [bCalls EXCEPT ![c].pc = "resolved"]
    /\ UNCHANGED <<cachedAuth, initPromise, bEnv, bPromises, bConstructed>>

BInit ==
    /\ SIdle /\ QIdle /\ AIdle /\ DIdle /\ FIdle /\ HIdle /\ VIdle /\ UIdle /\ LIdle /\ TIdle
    /\ RIdle /\ PIdle /\ WIdle /\ KIdle
    /\ cachedAuth = "undefined"
    /\ initPromise = 0
    /\ serverCachedAuth = "undefined"
    /\ bEnv \in BOOLEAN
    /\ bPromises = <<>>
    /\ bCalls = [c \in 1..MaxAuthCalls |-> NoAuthCall]
    /\ bConstructed = 0

BNext ==
    \/ \E c \in 1..MaxAuthCalls : ServerGetAuth(c)
    \/ \E c \in 1..MaxAuthCalls : AuthGetAuth(c)
    \/ \E ok \in BOOLEAN : InitSettles(ok)
    \/ \E c \in 1..MaxAuthCalls : AuthResolved(c)
    \/ \E c \in 1..MaxAuthCalls : ServerCaches(c)

SpecAuth == BInit /\ [][BNext]_vars

(***************************************************************************)
(* Claims about getAuth.                                                   *)
(***************************************************************************)
\* C26: in any interleaving of getAuth calls the provider is constructed at
\* most once, at most one initialization is ever started, all calls that
\* have resolved hold the same value, and once cachedAuth is null no
\* initialization is in flight.
C26_AuthInitializedOnce ==
    /\ bConstructed <= 1
    /\ Len(bPromises) <= 1
    /\ \A c, d \in 1..MaxAuthCalls :
          (bCalls[c].pc \in {"settled", "resolved"} /\ bCalls[d].pc \in {"settled", "resolved"})
              => bCalls[c].value = bCalls[d].value
    /\ cachedAuth = "null" => (initPromise = 0 \/ bPromises[initPromise] = "null")

\* The initialization failed while two calls awaited it; they and a call
\* made afterwards all resolved to null.
C26_Witness ==
    /\ bEnv
    /\ cachedAuth = "null"
    /\ \A c \in 1..MaxAuthCalls : bCalls[c].pc = "resolved" /\ bCalls[c].value = "null"
    /\ bCalls[1].promise = 1
    /\ bCalls[2].promise = 1
    /\ bCalls[3].promise = 0

(***************************************************************************)
(* Papers write requests: POST /api/papers/import, POST /api/papers/manual,*)
(* PATCH /api/papers/:id and DELETE /api/papers/:id of a signed-in user.   *)
(* Each sends one statement through pgQuery, i.e. withTimeout(pool.query(  *)
(* ...), 8000).  A row is "absent", "v1" (as inserted) or "v2" (updated);  *)
(* the table holds at most MaxTargets rows.                                *)
(***************************************************************************)
\* The table after the statement of a request of this kind for row id.
FreeIds(table) == {i \in DOMAIN table : table[i] = "absent"}

ApplyStatement(table, kind, id) ==
    CASE kind = "import" ->
            [table EXCEPT ![id] = IF @ = "absent" THEN "v1" ELSE "v2"]
      [] kind = "manual" ->
            [table EXCEPT ![CHOOSE i \in FreeIds(table) :
                               \A j \in FreeIds(table) : i <= j] = "v1"]
      [] kind = "patch" ->
            [table EXCEPT ![id] = IF @ = "absent" THEN @ ELSE "v2"]
      [] kind = "delete" ->
            [table EXCEPT ![id] = "absent"]

\* The status answered when the statement returned: 404 when UPDATE or
\* DELETE matched no row.
StatusOfResult(table, kind, id) ==
    IF kind \in {"patch", "delete"} /\ table[id] = "absent" THEN 404 ELSE 200

\* POST /api/papers/import: 500 when the arXiv paper cannot be fetched,
\* else its INSERT ... ON CONFLICT DO UPDATE.
PapersImport(r, id, fetched) ==
    /\ WFrame
    /\ wRequests[r].pc = "idle"
    /\ wRequests' = [wRequests EXCEPT ![r] =
          IF fetched
          THEN [kind |-> "import", id |-> id, pc |-> "awaitQuery", query |-> "running",
                status |-> 0, changed |-> FALSE]
          ELSE [kind |-> "import", id |-> id, pc |-> "done", query |-> "none",
                status |-> 500, changed |-> FALSE]]
    /\ UNCHANGED wPapers

\* POST /api/papers/manual: 400 when the title is missing, else its INSERT.
PapersManual(r, valid) ==
    /\ WFrame
    /\ wRequests[r].pc = "idle"
    /\ wRequests' = [wRequests EXCEPT ![r] =
          IF valid
          THEN [kind |-> "manual", id |-> 0, pc |-> "awaitQuery", query |-> "running",
                status |-> 0, changed |-> FALSE]
          ELSE [kind |-> "manual", id |-> 0, pc |-> "done", query |-> "none",
                status |-> 400, changed |-> FALSE]]
    /\ UNCHANGED wPapers

\* PATCH /api/papers/:id: 400 "No updates" without fields, else its UPDATE.
PapersPatch(r, id, valid) ==
    /\ WFrame
    /\ wRequests[r].pc = "idle"
    /\ wRequests' = [wRequests EXCEPT ![r] =
          IF valid
          THEN [kind |-> "patch", id |-> id, pc |-> "awaitQuery", query |-> "running",
                status |-> 0, changed |-> FALSE]
          ELSE [kind |-> "patch", id |-> id, pc |-> "done", query |-> "none",
                status |-> 400, changed |-> FALSE]]
    /\ UNCHANGED wPapers

\* DELETE /api/papers/:id up to its DELETE.
PapersDelete(r, id) ==
    /\ WFrame
    /\ wRequests[r].pc = "idle"
    /\ wRequests' = [wRequests EXCEPT ![r] =
          [kind |-> "delete", id |-> id, pc |-> "awaitQuery", query |-> "running",
           status |-> 0, changed |-> FALSE]]
    /\ UNCHANGED wPapers

\* The statement of request r is executed by the database; a handler that
\* still awaits it answers with its result.
QueryCommits(r) ==
    /\ WFrame
    /\ wRequests[r].query = "running"
    /\ wRequests[r].kind = "manual" => FreeIds(wPapers) # {}
    /\ wPapers' = ApplyStatement(wPapers, wRequests[r].kind, wRequests[r].id)
    /\ wRequests' = [wRequests EXCEPT
          ![r].query = "committed",
          ![r].changed = (wPapers' # wPapers),
          ![r].pc = "done",
          ![r].status = IF wRequests[r].pc = "awaitQuery"
                        THEN StatusOfResult(wPapers, wRequests[r].kind, wRequests[r].id)
                        ELSE @]

\* The statement of request r fails in the database: nothing is written,
\* and a handler that still awaits it answers 500 from its catch block.
QueryFails(r) ==
    /\ WFrame
    /\ wRequests[r].query = "running"
    /\ wRequests' = [wRequests EXCEPT
          ![r].query = "failed",
          ![r].pc = "done",
          ![r].status = IF wRequests[r].pc = "awaitQuery" THEN 500 ELSE @]
    /\ UNCHANGED wPapers

\* The status of the catch block for the error of withTimeout, whose
\* statusCode is 504: only /api/papers/manual answers error.statusCode.
TimeoutStatus(kind) == IF kind = "manual" THEN 504 ELSE 500

\* 8000 ms pass before the statement returns: withTimeout rejects and the
\* catch block answers.
QueryTimesOut(r) ==
    /\ WFrame
    /\ wRequests[r].pc = "awaitQuery"
    /\ wRequests[r].query = "running"
    /\ wRequests' = [wRequests EXCEPT ![r].pc = "done",
                                      ![r].status = TimeoutStatus(wRequests[r].kind)]
    /\ UNCHANGED wPapers

WInit ==
    SIdle /\ QIdle /\ AIdle /\ DIdle /\ FIdle /\ HIdle /\ VIdle /\ UIdle /\ LIdle /\ TIdle
          /\ RIdle /\ PIdle /\ BIdle /\ WIdle /\ KIdle

WNext ==
    \/ \E r \in 1..MaxWrites, id \in 1..MaxTargets, fetched \in BOOLEAN : PapersImport(r, id, fetched)
    \/ \E r \in 1..MaxWrites, valid \in BOOLEAN : PapersManual(r, valid)
    \/ \E r \in 1..MaxWrites, id \in 1..MaxTargets, valid \in BOOLEAN : PapersPatch(r, id, valid)
    \/ \E r \in 1..MaxWrites, id \in 1..MaxTargets : PapersDelete(r, id)
    \/ \E r \in 1..MaxWrites : QueryCommits(r)
    \/ \E r \in 1..MaxWrites : QueryFails(r)
    \/ \E r \in 1..MaxWrites : QueryTimesOut(r)

SpecWrites == WInit /\ [][WNext]_vars

(***************************************************************************)
(* Claims about papers write requests.                                     *)
(***************************************************************************)
\* C28 (as claimed): a papers write request answered with an error status
\* has not changed the papers table, the 8-second timeout included.
C28_ErrorMeansUnchanged ==
    \A r \in 1..MaxWrites :
        wRequests[r].status >= 400 => ~wRequests[r].changed

(***************************************************************************)
(* The paper view of script.js: the displayed paper with its tags and its  *)
(* Q&A messages, the local draft, and the saved papers of the user.  A     *)
(* paper is named by its key (its arXiv id); its saved row has the same    *)
(* number as id.  A message is named by the paper that was displayed when  *)
(* it was typed, and a Q&A history is the set of its messages: what is     *)
(* followed is which papers' messages a history holds, not their order or  *)
(* text.                                                                   *)
(***************************************************************************)
TagNames == {"t"}

\* The requests of the page that await their response.
InFlight ==
    Cardinality(kLoads) + kQa.asking + kQa.persisting
        + (IF kSave = NoSave THEN 0 ELSE 1) + (IF kDelete = 0 THEN 0 ELSE 1)

\* persistDraft: writes the draft unless no paper is shown or it is saved.
PersistDraft(paper, paperId, tags, history, draft) ==
    IF paper = 0 \/ paperId # 0 THEN draft
    ELSE [paper |-> paper, tags |-> tags, qaHistory |-> history]

\* PATCH /api/papers/:id with qa_history: UPDATE ... WHERE id = $1.
PatchQaHistory(server, paperId, history) ==
    IF paperId # 0 /\ server[paperId].saved
    THEN [server EXCEPT ![paperId].qa_history = history]
    ELSE server

\* PATCH /api/papers/:id with tags.
PatchTags(server, paperId, tags) ==
    IF paperId # 0 /\ server[paperId].saved
    THEN [server EXCEPT ![paperId].tags = tags]
    ELSE server

\* displayResults(data) for a paper just summarized.
DisplayResults(k) ==
    /\ KFrame
    /\ currentPaper' = k
    /\ kCurrentPaperId' = 0
    /\ currentTags' = {}
    /\ kDraft' = PersistDraft(k, 0, {}, currentQaHistory, kDraft)
    /\ UNCHANGED <<currentQaHistory, kServer, kLoads, kQa, kSave, kDelete>>

\* handleTagInput: a new tag, then savePaperUpdates or persistDraft.
HandleTagInput(t) ==
    /\ KFrame
    /\ currentPaper # 0
    /\ t \notin currentTags
    /\ currentTags' = currentTags \cup {t}
    /\ kServer' = PatchTags(kServer, kCurrentPaperId, currentTags')
    /\ kDraft' = PersistDraft(currentPaper, kCurrentPaperId, currentTags',
                              currentQaHistory, kDraft)
    /\ UNCHANGED <<currentPaper, kCurrentPaperId, currentQaHistory, kLoads, kQa,
                   kSave, kDelete>>

\* savePaper up to its POST /api/papers/import.
SavePaperStart ==
    /\ KFrame
    /\ currentPaper # 0
    /\ kSave = NoSave
    /\ InFlight < MaxPending
    /\ kSave' = [paper |-> currentPaper, tags |-> currentTags]
    /\ UNCHANGED <<currentPaper, kCurrentPaperId, currentTags, currentQaHistory,
                   kServer, kDraft, kLoads, kQa, kDelete>>

\* The import answers.  With the row (INSERT ... ON CONFLICT DO UPDATE
\* keeps the qa_history of an existing row): currentPaperId =
\* response.paper.id; clearDraft().  With an error: a toast only.
SavePaperSettles(ok) ==
    /\ KFrame
    /\ kSave # NoSave
    /\ kSave' = NoSave
    /\ IF ok
       THEN /\ kServer' = [kServer EXCEPT ![kSave.paper] =
                  [saved |-> TRUE, tags |-> kSave.tags, qa_history |-> @.qa_history]]
            /\ kCurrentPaperId' = kSave.paper
            /\ kDraft' = NoDraft
       ELSE UNCHANGED <<kServer, kCurrentPaperId, kDraft>>
    /\ UNCHANGED <<currentPaper, currentTags, currentQaHistory, kLoads, kQa, kDelete>>

\* loadSavedPaper(paper) up to its GET /api/papers/:id; paper is the entry
\* of the sidebar, which has tags and no qa_history.
LoadSavedPaperStart(p) ==
    /\ KFrame
    /\ kServer[p].saved
    /\ \A l \in kLoads : l.id # p
    /\ InFlight < MaxPending
    /\ kCurrentPaperId' = p
    /\ kLoads' = kLoads \cup {[id |-> p, tags |-> kServer[p].tags]}
    /\ UNCHANGED <<currentPaper, currentTags, currentQaHistory, kServer, kDraft,
                   kQa, kSave, kDelete>>

\* What loadSavedPaper shows: the fetched row, or the sidebar entry when
\* the fetch failed or the row is gone.
Hydrated(server, l, ok) ==
    IF ok /\ server[l.id].saved
    THEN [tags |-> server[l.id].tags, qa_history |-> server[l.id].qa_history]
    ELSE [tags |-> l.tags, qa_history |-> {}]

\* The call of loadSavedPaper for paper p that awaits its fetch.
LoadOf(p) == CHOOSE l \in kLoads : l.id = p

\* The rest of loadSavedPaper, after its fetch.
LoadSavedPaperHydrate(p, ok) ==
    /\ KFrame
    /\ \E l \in kLoads : l.id = p
    /\ kLoads' = kLoads \ {LoadOf(p)}
    /\ currentPaper' = p
    /\ currentTags' = Hydrated(kServer, LoadOf(p), ok).tags
    /\ currentQaHistory' = Hydrated(kServer, LoadOf(p), ok).qa_history
    /\ UNCHANGED <<kCurrentPaperId, kServer, kDraft, kQa, kSave, kDelete>>

\* sendQa up to its POST /api/qa/...: the question and "Thinking..." are
\* pushed.
SendQa ==
    /\ KFrame
    /\ currentPaper # 0
    /\ kQa.asking + kQa.persisting < MaxQa
    /\ InFlight < MaxPending
    /\ currentQaHistory' = currentQaHistory \cup {currentPaper}
    /\ kQa' = [kQa EXCEPT !.asking = @ + 1]
    /\ UNCHANGED <<currentPaper, kCurrentPaperId, currentTags, kServer, kDraft,
                   kLoads, kSave, kDelete>>

\* The answer, or the error, of a sendQa call arrives: the text of its
\* message is replaced and persistQaHistory sends its PATCH.
SendQaAnswer ==
    /\ KFrame
    /\ kQa.asking > 0
    /\ kServer' = PatchQaHistory(kServer, kCurrentPaperId, currentQaHistory)
    /\ kQa' = [asking |-> kQa.asking - 1, persisting |-> kQa.persisting + 1]
    /\ UNCHANGED <<currentPaper, kCurrentPaperId, currentTags, currentQaHistory,
                   kDraft, kLoads, kSave, kDelete>>

\* finally { persistDraft(); } of a sendQa call.
SendQaFinally ==
    /\ KFrame
    /\ kQa.persisting > 0
    /\ kDraft' = PersistDraft(currentPaper, kCurrentPaperId, currentTags,
                              currentQaHistory, kDraft)
    /\ kQa' = [kQa EXCEPT !.persisting = @ - 1]
    /\ UNCHANGED <<currentPaper, kCurrentPaperId, currentTags, currentQaHistory,
                   kServer, kLoads, kSave, kDelete>>

\* deleteSavedPaper up to its DELETE /api/papers/:id.
DeleteSavedPaperStart ==
    /\ KFrame
    /\ kCurrentPaperId # 0
    /\ kDelete = 0
    /\ InFlight < MaxPending
    /\ kDelete' = kCurrentPaperId
    /\ UNCHANGED <<currentPaper, kCurrentPaperId, currentTags, currentQaHistory,
                   kServer, kDraft, kLoads, kQa, kSave>>

\* The DELETE answers.  The row was deleted: currentPaperId = null;
\* persistDraft().  An error (404 when the row is gone already): a toast
\* only.
DeleteSavedPaperSettles(ok) ==
    /\ KFrame
    /\ kDelete # 0
    /\ kDelete' = 0
    /\ IF ok /\ kServer[kDelete].saved
       THEN /\ kServer' = [kServer EXCEPT ![kDelete] = NoSavedRow]
            /\ kCurrentPaperId' = 0
            /\ kDraft' = PersistDraft(currentPaper, 0, currentTags, currentQaHistory,
                                      kDraft)
       ELSE UNCHANGED <<kServer, kCurrentPaperId, kDraft>>
    /\ UNCHANGED <<currentPaper, currentTags, currentQaHistory, kLoads, kQa, kSave>>

\* The page as loaded by a user who may have saved papers before.
KInit ==
    /\ SIdle /\ QIdle /\ AIdle /\ DIdle /\ FIdle /\ HIdle /\ VIdle /\ UIdle /\ LIdle /\ TIdle
    /\ RIdle /\ PIdle /\ BIdle /\ WIdle
    /\ currentPaper = 0
    /\ kCurrentPaperId = 0
    /\ currentTags = {}
    /\ currentQaHistory = {}
    /\ kServer \in [PaperKeys -> {NoSavedRow, [NoSavedRow EXCEPT !.saved = TRUE]}]
    /\ kDraft = NoDraft
    /\ kLoads = {}
    /\ kQa = NoQa
    /\ kSave = NoSave
    /\ kDelete = 0

KNext ==
    \/ \E k \in PaperKeys : DisplayResults(k)
    \/ SavePaperStart
    \/ \E ok \in BOOLEAN : SavePaperSettles(ok)
    \/ \E p \in PaperKeys : LoadSavedPaperStart(p)
    \/ \E p \in PaperKeys, ok \in BOOLEAN : LoadSavedPaperHydrate(p, ok)
    \/ SendQa
    \/ SendQaAnswer
    \/ SendQaFinally
    \/ DeleteSavedPaperStart
    \/ \E ok \in BOOLEAN : DeleteSavedPaperSettles(ok)

SpecPaperView == KInit /\ [][KNext]_vars

\* Saved papers are opened from the sidebar, tagged and asked about.
LoadsInit ==
    /\ SIdle /\ QIdle /\ AIdle /\ DIdle /\ FIdle /\ HIdle /\ VIdle /\ UIdle /\ LIdle /\ TIdle
    /\ RIdle /\ PIdle /\ BIdle /\ WIdle
    /\ currentPaper = 0
    /\ kCurrentPaperId = 0
    /\ currentTags = {}
    /\ currentQaHistory = {}
    /\ kServer = [p \in PaperKeys |-> [NoSavedRow EXCEPT !.saved = TRUE]]
    /\ kDraft = NoDraft
    /\ kLoads = {}
    /\ kQa = NoQa
    /\ kSave = NoSave
    /\ kDelete = 0

LoadsNext ==
    \/ \E p \in PaperKeys : LoadSavedPaperStart(p)
    \/ \E p \in PaperKeys, ok \in BOOLEAN : LoadSavedPaperHydrate(p, ok)
    \/ \E t \in TagNames : HandleTagInput(t)
    \/ SendQa
    \/ SendQaAnswer
    \/ SendQaFinally

SpecLoadSavedPaper == LoadsInit /\ [][LoadsNext]_vars

(***************************************************************************)
(* Claims about the paper view.                                            *)
(***************************************************************************)
AllAbout(history, paper) == history \subseteq {paper}

\* C29 (as claimed): currentQaHistory holds only messages exchanged while
\* the current paper was the current paper, and neither the qa_history of a
\* saved paper nor the qaHistory of the draft holds a message of another
\* paper.
C29_QaHistoryOfCurrentPaperOnly ==
    /\ AllAbout(currentQaHistory, currentPaper)
    /\ AllAbout(kDraft.qaHistory, kDraft.paper)
    /\ \A p \in PaperKeys : AllAbout(kServer[p].qa_history, p)

\* C30 (as claimed): when the last of the overlapping loadSavedPaper calls
\* has completed, currentPaper, currentTags and currentQaHistory are those
\* of the paper identified by currentPaperId.
LastLoadShowsCurrentPaperId ==
    (kLoads # {} /\ kLoads' = {} /\ kCurrentPaperId' # 0) =>
        /\ currentPaper' = kCurrentPaperId'
        /\ \E l \in kLoads, ok \in BOOLEAN :
              /\ l.id = kCurrentPaperId'
              /\ currentTags' = Hydrated(kServer, l, ok).tags
              /\ currentQaHistory' = Hydrated(kServer, l, ok).qa_history

C30_LoadsEndOnCurrentPaperId == [][LastLoadShowsCurrentPaperId]_vars

(***************************************************************************)
(* Claims about simplifyPaper.                                             *)
(***************************************************************************)
\* The first response, as simplifyPaper holds it after trimming and
\* normalizing, has no Key Terms heading the code recognizes.
PrimaryLacksHeading ==
    /\ sPrimary.status = "ok"
    /\ ~HasKeyTerms(ReplaceHeadings(Trim(sPrimary.content)))

AllCallsSucceeded ==
    /\ sPrimary.status = "ok"
    /\ sRepair.status # "failed"

\* C1 (as claimed): for a style among simple, detailed and technical and a
\* first response without a recognizable Key Terms heading, when every LLM
\* call succeeds the returned string holds exactly one **Key Terms:** heading,
\* whatever the repair call returns.
C1_ExactlyOneHeading ==
    (/\ sPc = "done"
     /\ sStyle \in {"simple", "detailed", "technical"}
     /\ PrimaryLacksHeading
     /\ Trim(sPrimary.content) # <<>>
     /\ AllCallsSucceeded
     /\ Trim(sRepair.content) # <<>>)
    => CountCanonical(sResult) = 1

\* C2: for style tldr no key-terms request is ever issued and nothing is
\* appended to the first response; a finished call has made exactly one LLM call.
C2_TldrNeverRepairs ==
    sStyle = "tldr" =>
        /\ \A i \in 1..Len(sCalls) : sCalls[i].kind # "keyterms"
        /\ sPc # "awaitRepair"
        /\ sRepair = Pending
        /\ sPc \in {"done", "failed"} => Len(sCalls) = 1
        /\ sPc = "done" => sResult = ReplaceHeadings(Trim(sPrimary.content))

C2_Witness ==
    /\ sStyle = "tldr"
    /\ sPc = "done"
    /\ PrimaryLacksHeading
    /\ sPrimary.content # <<>>

\* C3 (as claimed): when the first call succeeds without a Key Terms heading
\* and the repair call fails, simplifyPaper returns the first summary text
\* without key terms and does not retry the repair call.
C3_RepairFailureReturnsSummary ==
    (sPrimary.status = "ok" /\ sRepair.status = "failed") =>
        /\ sPc = "done"
        /\ sResult = sText
        /\ Len(sCalls) = 2

\* C3 (amended): when the repair call fails, simplifyPaper fails with the
\* summary error carrying the upstream message and returns no text; the repair
\* call is not retried.  The first summary is returned without key terms only
\* when the repair call succeeds with empty content.
C3_RepairFailureFailsCall ==
    /\ (sPrimary.status = "ok" /\ sRepair.status = "failed") =>
        /\ sPc = "failed"
        /\ sResult = Undefined
        /\ sError = [name |-> "Error", prefix |-> "Failed to generate summary: ",
                     upstream |-> sRepair.message]
        /\ Len(sCalls) = 2
        /\ ~ENABLED SNext
    /\ (sRepair.status = "ok" /\ Trim(sRepair.content) = <<>>) =>
        /\ sPc = "done"
        /\ sResult = ReplaceHeadings(Trim(sPrimary.content))
        /\ CountCanonical(sResult) = 0

C3_Witness ==
    /\ sPrimary.status = "ok"
    /\ sPrimary.content # <<>>
    /\ sRepair.status = "failed"
    /\ sPc = "failed"

\* C4: when an LLM invocation of simplifyPaper fails, the call fails with an
\* error carrying the upstream message, returns no text and issues no further
\* LLM call.
C4_AnyLlmFailureFailsCall ==
    /\ sPrimary.status = "failed" =>
        /\ sPc = "failed"
        /\ sResult = Undefined
        /\ sError.name = "Error"
        /\ sError.upstream = sPrimary.message
        /\ Len(sCalls) = 1
        /\ sRepair = Pending
        /\ ~ENABLED SNext
    /\ sRepair.status = "failed" =>
        /\ sPc = "failed"
        /\ sResult = Undefined
        /\ sError.name = "Error"
        /\ sError.upstream = sRepair.message
        /\ Len(sCalls) = 2
        /\ ~ENABLED SNext

C4_Witness ==
    /\ sPrimary.status = "failed"
    /\ sPc = "failed"
    /\ sError.upstream = "rate limit"

\* C14 (as claimed): a style value outside simple, detailed, technical and
\* tldr is served as simple: the first request carries the simple system
\* prompt, prompt template and budget of 1000 tokens, and the call does not
\* fail on account of the style.
C14_UnknownStyleIsSimple ==
    (sPc # "idle" /\ sStyle \notin StyleNames) =>
        /\ sError.name # "TypeError"
        /\ sCalls # <<>>
        /\ sCalls[1] = PrimaryRequest(SUMMARY_STYLES["simple"])
        /\ sCalls[1].max_tokens = 1000

\* C20 (as claimed): a finished summarize call has issued at least 2 and at
\* most 3 LLM calls, one after the other.
C20_TwoToThreeCalls ==
    sPc \in {"done", "failed"} => Len(sCalls) >= 2 /\ Len(sCalls) <= 3

\* C20 (amended): simplifyPaper issues one summary call and at most one more,
\* the key-terms call, which is issued only after the summary call has
\* resolved, for a style other than tldr and a summary without a Key Terms
\* heading; no call is issued while another is pending, and never a third.
C20_OneCallThenConditionalSecond ==
    /\ Len(sCalls) <= 2
    /\ (sPc \in {"awaitPrimary", "awaitRepair", "done"}) => Len(sCalls) >= 1
    /\ Len(sCalls) >= 1 => sCalls[1].kind = "summary"
    /\ sPc = "awaitPrimary" => Len(sCalls) = 1 /\ sPrimary = Pending
    /\ Len(sCalls) = 2 =>
        /\ sCalls[2] = RepairRequest
        /\ sStyle # "tldr"
        /\ PrimaryLacksHeading
    /\ (sPc = "done" /\ Len(sCalls) = 1) =>
        (sStyle = "tldr" \/ ~PrimaryLacksHeading)

C20_Witness ==
    /\ sPc = "done"
    /\ Len(sCalls) = 2
    /\ sRepair.status = "ok"
    /\ sStyle = "detailed"


\* The lines of s, split at the line breaks.
RECURSIVE TextLines(_)
TextLines(s) ==
    IF \A i \in 1..Len(s) : s[i] # "NL" THEN <<s>>
    ELSE LET n == CHOOSE i \in 1..Len(s) : s[i] = "NL" /\ \A j \in 1..(i - 1) : s[j] # "NL"
         IN  <<SubSeq(s, 1, n - 1)>> \o TextLines(SubSeq(s, n + 1, Len(s)))

\* s without its blanks and bold markers.
RECURSIVE Bare(_)
Bare(s) ==
    IF s = <<>> THEN <<>>
    ELSE IF s[1] \in {"SP", "**"} THEN Bare(Tail(s))
    ELSE <<s[1]>> \o Bare(Tail(s))

\* A line that is a Key Terms heading in some casing, spacing, bold-marker
\* or colon-placement variant.
IsHeadingVariant(line) ==
    /\ Len(Bare(line)) = 3
    /\ IsKey(Bare(line)[1])
    /\ IsTerms(Bare(line)[2])
    /\ Bare(line)[3] = ":"

\* C21 (as claimed): when simplifyPaper returns the first completion, the
\* returned string is that completion, trimmed, with every line that is a
\* Key Terms heading variant replaced by exactly **Key Terms:** and every
\* other line as the model emitted it, and replacing the headings of the
\* returned string once more changes nothing.
C21_HeadingLinesCanonical ==
    (sPc = "done" /\ sRepair = Pending) =>
        /\ sResult = Trim(JoinLines(
              [i \in 1..Len(TextLines(sPrimary.content)) |->
                  IF IsHeadingVariant(TextLines(sPrimary.content)[i])
                  THEN CanonicalHeading
                  ELSE TextLines(sPrimary.content)[i]]))
        /\ ReplaceHeadings(sResult) = sResult

=========================================================================
